---------------------------- MODULE Spec2Model ----------------------------
(***************************************************************************)
(* Verification model of the Alpine flashcard map generator.               *)
(*                                                                         *)
(*   Part I   ring assembler   scripts/01_download_data.py                 *)
(*            (_assemble_rings, _assemble_ring_coords, _close)             *)
(*   Part II  raster basemap   scripts/02_generate_basemap.py              *)
(*            (layer cache, compositing) and the batch driver of           *)
(*            scripts/03_generate_cards.py                                 *)
(*                                                                         *)
(*   Part III one pixel through the raster pipeline (layer rendering and   *)
(*            compositing of scripts/02_generate_basemap.py)               *)
(*   Part IV   pixel dimensions of a deck (_compute_pixel_dims)            *)
(*   Part V    label placement (_label_point)                              *)
(*   Part VI   circle packing of render_question_mark                      *)
(*   Part VII  loader caches of scripts/02_generate_basemap.py             *)
(*   Part VIII batch card generation (scripts/03_generate_cards.py) and    *)
(*             deck building (scripts/04_build_deck.py)                    *)
(*   Part IX   decimation of load_dem                                      *)
(*   Part X    download_polygons and the OSM-to-GeoJSON conversion         *)
(*   Part XI   the force flag in the generate_all drivers                  *)
(*             (scripts/03_generate_cards.py, 03b_generate_poi_cards.py)   *)
(*   Part XII  the Overpass retry loops of scripts/01_download_data.py     *)
(*                                                                         *)
(* Each part has its own specification (SpecRing, SpecBasemap, SpecPixel,  *)
(* SpecDims, SpecLabel, SpecPack, SpecCache, SpecBatch, SpecDem, SpecPoly, *)
(* SpecForce, SpecRetry); the variables of the other parts keep their      *)
(* quiet value.                                                            *)
(***************************************************************************)
EXTENDS Integers, Sequences, FiniteSets, TLC

VARIABLES
    \* ---- Part I: ring assembler -------------------------------------
    fn,         \* which assembler runs: "_assemble_rings" | "_assemble_ring_coords"
    segments,   \* the input: a sequence of segments (sequences of points)
    used,       \* used[i]: segment i was consumed
    ring,       \* the chain being built
    rings,      \* the rings emitted so far
    changed,    \* the inner while loop's flag
    idx,        \* position of the inner for loop (1-based)
    rpc,        \* "pick" | "scan" | "close" | "done" | "raised"
    marks,      \* history: how many times used[i] was set to True
    \* ---- Part II: raster basemap and batch driver --------------------
    deck,       \* the deck: its latitude-corrected aspect ratio <<num, den>>
    dem_tif,    \* d.dem_tif.exists()
    files,      \* the deck's files: file id -> pixel dimensions, or NoFile
    bpc,        \* position of the generating process
    mode,       \* what the process runs: "basemap" | "generate_all"
    flags,      \* force flags of the current generate_raster_basemap call
    buf,        \* <<buf_top, buf_left>> of the current hillshade rendering
    ov,         \* position in the overlay list of generate_all (1-based)
    pre,        \* history: `files` when the current run started
    written,    \* history: the files the current run has written
    \* ---- Part III: one pixel through the raster pipeline -------------
    px_src,     \* the source data at the pixel
    px_layers,  \* the pixel in the rendered layers, or NoPixel
    px_final,   \* the pixel in the composited image, or NoPixel
    ppc,        \* "render" | "composite" | "done"
    \* ---- Part IV: pixel dimensions of a bounding box -----------------
    bbox_aspect, \* the latitude-corrected aspect ratio <<num, den>> of the bbox
    pixel_dims,  \* _compute_pixel_dims of it, or <<>> before the call
    dpc,        \* "call" | "done"
    \* ---- Part V: label point of a polygon ----------------------------
    polygon,    \* the polygon: a C-shape [s, a, g, d]
    frac_i,     \* position in LABEL_SHRINK_FRACTIONS (1-based)
    label_pt,   \* the returned point [xn, xd, yn, yd], or <<>>
    lpc,        \* "loop" | "done"
    \* ---- Part VI: circle packing of render_question_mark -------------
    geom_area,  \* geom.area
    remaining,  \* remaining.area
    r_max,      \* radius of the first circle; 0 for None
    n_circles,  \* len(circles)
    iter,       \* iterations of the for loop started
    first_r,    \* history: the first candidate radius; -1 if none
    cand,       \* history: the candidate radius of the last iteration; -1 if none
    r_min,      \* history: the smallest radius in circles; 0 if none
    overlap,    \* history: a circle reached beyond the uncovered region
    glyphs,     \* '?' glyphs drawn by ax.text; -1 before the glyph loop
    font_raw,   \* int(diameter_pts * fill factor) of the smallest circle
    font_used,  \* fontsize passed to ax.text for the smallest circle
    stop,       \* history: why the loop ended
    qpc,        \* "loop" | "done"
    \* ---- Part VII: loader caches -------------------------------------
    loader,     \* the loader whose cache is followed
    disk,       \* content of the source file at each path; 0 if missing
    cache,      \* the loader's cache dict; Unset where the key is absent
    call,       \* history: the last call (path, returned value, file read)
    \* ---- Part VIII: batch card generation and deck building ----------
    polygons,   \* groups that have a polygon in the deck's GeoJSON
    front,      \* content of each group's front overlay file
    back,       \* content of each group's back overlay file
    shared,     \* basemap, partition and context images exist
    force_all,  \* the force argument of generate_all
    gi,         \* groups the running loop has been through
    notes,      \* anki_deck.notes, as the set of their groups
    skipped,    \* the skipped counter of generate_apkg
    reported,   \* number of skipped groups printed at the end; -1 if none
    gpc,        \* position of the batch run
    \* ---- Part IX: decimation of load_dem -----------------------------
    src_size,   \* (src.width, src.height) of the DEM file
    factor,     \* the decimation factor; 0 before the read
    dem_shape,  \* shape (rows, columns) of the array read
    mpc,        \* "open" | "done"
    \* ---- Part X: download_polygons -----------------------------------
    relations,  \* the relations on the server: id, tag value (0: untagged), rings
    fallback,   \* d.osm_fallback_ids, as the refs it has an id for
    features,   \* features of the GeoJSON converted in step 1
    kept,       \* the features to save
    found_refs, \* refs of the features kept
    still_missing,\* the refs printed as still missing
    saved,      \* features of the file written
    xpc,        \* position in download_polygons
    \* ---- Part XI: force in the two generate_all drivers --------------
    script,     \* "03_generate_cards" | "03b_generate_poi_cards"
    gforce,     \* the force argument of generate_all
    images,     \* images[i]: the image file exists
    images_pre, \* history: `images` at the start of the run
    images_written,\* history: the images the run wrote
    img_i,      \* position in the image list (1: the basemap)
    fpc,        \* "run" | "done"
    \* ---- Overpass downloads (01_download_data.py) --------------------
    dl_fn,      \* the download function being run
    attempt,    \* loop variable of `for attempt in range(3)`
    posts,      \* HTTP requests posted by the current call
    outcomes,   \* outcome of each request posted by the current call
    out_exists, \* the function's output file exists
    dl_result,  \* how the current call ended
    prev_result,\* how the previous call ended
    dl_run,     \* number of the current call
    opc         \* position inside the call

ringVars == <<fn, segments, used, ring, rings, changed, idx, rpc, marks>>

baseVars == <<deck, dem_tif, files, bpc, mode, flags, buf, ov, pre, written>>

pixVars == <<px_src, px_layers, px_final, ppc>>

dimsVars == <<bbox_aspect, pixel_dims, dpc>>

labelVars == <<polygon, frac_i, label_pt, lpc>>

packVars == <<geom_area, remaining, r_max, n_circles, iter, first_r, cand,
              r_min, overlap, glyphs, font_raw, font_used, stop, qpc>>

cacheVars == <<loader, disk, cache, call>>

batchVars == <<polygons, front, back, shared, force_all, gi, notes, skipped, reported, gpc>>

demVars == <<src_size, factor, dem_shape, mpc>>

polyVars == <<relations, fallback, features, kept, found_refs, still_missing, saved, xpc>>

forceVars == <<script, gforce, images, images_pre, images_written, img_i, fpc>>

retryVars == <<dl_fn, attempt, posts, outcomes, out_exists, dl_result, prev_result, dl_run, opc>>

vars == <<ringVars, baseVars, pixVars, dimsVars, labelVars, packVars, cacheVars, batchVars, demVars, polyVars, forceVars, retryVars>>

\* What the steps of a part leave unchanged: the variables of the others.
notRingVars == <<baseVars, pixVars, dimsVars, labelVars, packVars, cacheVars, batchVars, demVars, polyVars, forceVars, retryVars>>

notBaseVars == <<ringVars, pixVars, dimsVars, labelVars, packVars, cacheVars, batchVars, demVars, polyVars, forceVars, retryVars>>

notPixVars == <<ringVars, baseVars, dimsVars, labelVars, packVars, cacheVars, batchVars, demVars, polyVars, forceVars, retryVars>>

notDimsVars == <<ringVars, baseVars, pixVars, labelVars, packVars, cacheVars, batchVars, demVars, polyVars, forceVars, retryVars>>

notLabelVars == <<ringVars, baseVars, pixVars, dimsVars, packVars, cacheVars, batchVars, demVars, polyVars, forceVars, retryVars>>

notPackVars == <<ringVars, baseVars, pixVars, dimsVars, labelVars, cacheVars, batchVars, demVars, polyVars, forceVars, retryVars>>

notCacheVars == <<ringVars, baseVars, pixVars, dimsVars, labelVars, packVars, batchVars, demVars, polyVars, forceVars, retryVars>>

notBatchVars == <<ringVars, baseVars, pixVars, dimsVars, labelVars, packVars, cacheVars, demVars, polyVars, forceVars, retryVars>>

notDemVars == <<ringVars, baseVars, pixVars, dimsVars, labelVars, packVars, cacheVars, batchVars, polyVars, forceVars, retryVars>>

notPolyVars == <<ringVars, baseVars, pixVars, dimsVars, labelVars, packVars, cacheVars, batchVars, demVars, forceVars, retryVars>>

notForceVars == <<ringVars, baseVars, pixVars, dimsVars, labelVars, packVars, cacheVars, batchVars, demVars, polyVars, retryVars>>

notRetryVars == <<ringVars, baseVars, pixVars, dimsVars, labelVars, packVars, cacheVars, batchVars, demVars, polyVars, forceVars>>

\* The values a part's variables keep while another part runs.
RingQuiet ==
    /\ fn = "_assemble_rings"
    /\ segments = <<>>
    /\ used = <<>>
    /\ marks = <<>>
    /\ ring = <<>>
    /\ rings = <<>>
    /\ changed = FALSE
    /\ idx = 0
    /\ rpc = "done"

BaseQuiet ==
    /\ deck = <<1, 1>>
    /\ dem_tif = FALSE
    /\ files = <<>>
    /\ bpc = "idle"
    /\ mode = "basemap"
    /\ flags = <<>>
    /\ buf = <<0, 0>>
    /\ ov = 0
    /\ pre = <<>>
    /\ written = {}

PixQuiet ==
    /\ px_src = <<>>
    /\ px_layers = <<>>
    /\ px_final = <<>>
    /\ ppc = "done"

DimsQuiet ==
    /\ bbox_aspect = <<1, 1>>
    /\ pixel_dims = <<>>
    /\ dpc = "done"

LabelQuiet ==
    /\ polygon = <<>>
    /\ frac_i = 0
    /\ label_pt = <<>>
    /\ lpc = "done"

PackQuiet ==
    /\ geom_area = 0
    /\ remaining = 0
    /\ r_max = 0
    /\ n_circles = 0
    /\ iter = 0
    /\ first_r = -1
    /\ cand = -1
    /\ r_min = 0
    /\ overlap = FALSE
    /\ glyphs = -1
    /\ font_raw = 0
    /\ font_used = 0
    /\ stop = "none"
    /\ qpc = "done"

CacheQuiet ==
    /\ loader = "none"
    /\ disk = <<>>
    /\ cache = <<>>
    /\ call = <<>>

BatchQuiet ==
    /\ polygons = {}
    /\ front = <<>>
    /\ back = <<>>
    /\ shared = FALSE
    /\ force_all = FALSE
    /\ gi = 0
    /\ notes = {}
    /\ skipped = 0
    /\ reported = -1
    /\ gpc = "idle"

DemQuiet ==
    /\ src_size = <<>>
    /\ factor = 0
    /\ dem_shape = <<>>
    /\ mpc = "done"

PolyQuiet ==
    /\ relations = {}
    /\ fallback = {}
    /\ features = {}
    /\ kept = {}
    /\ found_refs = {}
    /\ still_missing = {}
    /\ saved = {}
    /\ xpc = "done"

ForceQuiet ==
    /\ script = "none"
    /\ gforce = FALSE
    /\ images = <<>>
    /\ images_pre = <<>>
    /\ images_written = {}
    /\ img_i = 0
    /\ fpc = "done"

RetryQuiet ==
    /\ dl_fn = "_overpass_query"
    /\ attempt = 0
    /\ posts = 0
    /\ outcomes = <<>>
    /\ out_exists = FALSE
    /\ dl_result = "none"
    /\ prev_result = "none"
    /\ dl_run = 1
    /\ opc = "start"

\* All parts but one are quiet.
QuietExcept(part) ==
    /\ part # "ring" => RingQuiet
    /\ part # "base" => BaseQuiet
    /\ part # "pix" => PixQuiet
    /\ part # "dims" => DimsQuiet
    /\ part # "label" => LabelQuiet
    /\ part # "pack" => PackQuiet
    /\ part # "cache" => CacheQuiet
    /\ part # "batch" => BatchQuiet
    /\ part # "dem" => DemQuiet
    /\ part # "poly" => PolyQuiet
    /\ part # "force" => ForceQuiet
    /\ part # "retry" => RetryQuiet

(***************************************************************************)
(* PART I -- RING ASSEMBLER                                                *)
(***************************************************************************)

\* Coordinates are integers in units of 5e-8 degrees, so that the tolerance
\* of _close (1e-7 degrees) is 2 units: two points one unit apart are
\* within the tolerance without being equal.
Tol == 2

\* A ring must have at least this many points to be emitted.
MinRingLen == 4

\* Bound: total number of points over all input segments.
MaxTotalPts == 6

\* Segment end points of the inputs: a = (0,0); a' = (1,0), within the
\* tolerance of a; b = (0,2), within the tolerance of a on the x axis only;
\* c = (3,3), far from all.
EndPts == { <<0, 0>>, <<1, 0>>, <<0, 2>>, <<3, 3>> }

\* Interior points of the input segments (far from every end point).
MidPt == <<6, 6>>

Abs(x) == IF x < 0 THEN -x ELSE x

_close(a, b) == Abs(a[1] - b[1]) < Tol /\ Abs(a[2] - b[2]) < Tol

\* Python: list(reversed(s))
Reverse(s) == [i \in 1..Len(s) |-> s[Len(s) + 1 - i]]

\* Python: s[1:]
DropFirst(s) == IF s = <<>> THEN <<>> ELSE SubSeq(s, 2, Len(s))

\* Python: s[:-1]
DropLast(s) == IF s = <<>> THEN <<>> ELSE SubSeq(s, 1, Len(s) - 1)

Last(s) == s[Len(s)]

\* Mutant of SkipSeg: the test forgets the `used` flag.
SkipSeg_mutIgnoreUsed(f, i, seg) ==
    IF f = "_assemble_rings" THEN seg = <<>> ELSE Len(seg) < 2

\* The inner loop's skip test for one segment.
SkipSeg(f, i, seg) ==
    IF f = "_assemble_rings"
    THEN used[i] \/ seg = <<>>
    ELSE used[i] \/ Len(seg) < 2

\* Which of the four join tests succeeds first (0: none).
JoinBranch(r, seg) ==
    IF _close(Last(r), seg[1]) THEN 1
    ELSE IF _close(Last(r), Last(seg)) THEN 2
    ELSE IF _close(r[1], Last(seg)) THEN 3
    ELSE IF _close(r[1], seg[1]) THEN 4
    ELSE 0

\* The ring after joining seg by branch b, as _assemble_rings writes it.
JoinIds(r, seg, b) ==
    CASE b = 1 -> r \o DropFirst(seg)
      [] b = 2 -> r \o Reverse(DropLast(seg))
      [] b = 3 -> DropLast(seg) \o r
      [] b = 4 -> Reverse(DropFirst(seg)) \o r
      [] OTHER -> r

\* Mutant of JoinCoords: a segment joined by its far end keeps its end point.
JoinCoords_mutKeepEnd(r, seg, b) ==
    CASE b = 1 -> r \o DropFirst(seg)
      [] b = 2 -> r \o Reverse(seg)
      [] b = 3 -> DropLast(seg) \o r
      [] b = 4 -> DropLast(Reverse(seg)) \o r
      [] OTHER -> r

\* The ring after joining seg by branch b, as _assemble_ring_coords writes it.
JoinCoords(r, seg, b) ==
    CASE b = 1 -> r \o DropFirst(seg)
      [] b = 2 -> r \o DropFirst(Reverse(seg))
      [] b = 3 -> DropLast(seg) \o r
      [] b = 4 -> DropLast(Reverse(seg)) \o r
      [] OTHER -> r

\* Mutant of Join: a segment joined by its far end is appended unreversed.
Join_mutNoReverse(f, r, seg, b) ==
    IF b = 2 THEN r \o DropLast(seg)
    ELSE IF f = "_assemble_rings" THEN JoinIds(r, seg, b) ELSE JoinCoords(r, seg, b)

Join(f, r, seg, b) ==
    IF f = "_assemble_rings" THEN JoinIds(r, seg, b) ELSE JoinCoords(r, seg, b)

\* Mutant of Closed: the closure test is exact equality, not _close.
Closed_mutExact(r) ==
    IF r # <<>> /\ r[1] # Last(r) THEN Append(r, r[1]) ELSE r

\* Forced closure: an open chain gets a copy of its first point appended.
Closed(r) ==
    IF r # <<>> /\ ~_close(r[1], Last(r)) THEN Append(r, r[1]) ELSE r

\* Mutant of Emit: the length test is off by one.
Emit_mutOffByOne(rs, r) == IF Len(r) >= MinRingLen - 1 THEN Append(rs, r) ELSE rs

\* A finished chain is emitted only with at least MinRingLen points.
Emit(rs, r) == IF Len(r) >= MinRingLen THEN Append(rs, r) ELSE rs

NSegs == Len(segments)

Unused == {i \in 1..NSegs : ~used[i]}

Min(S) == CHOOSE x \in S : \A y \in S : x <= y

\* ---- inputs ---------------------------------------------------------

\* The segments with exactly k >= 2 points.
SegsOfLen(k) ==
    { <<s>> \o [i \in 1..(k - 2) |-> MidPt] \o <<e>> : s \in EndPts, e \in EndPts }

\* All segment lists with at most `budget` points in total.
RECURSIVE SegLists(_)
SegLists(budget) ==
    { <<>> } \cup
    UNION { { <<seg>> \o rest : seg \in SegsOfLen(k), rest \in SegLists(budget - k) }
            : k \in 2..budget }

RingInit ==
    /\ fn \in {"_assemble_rings", "_assemble_ring_coords"}
    /\ segments \in SegLists(MaxTotalPts)
    /\ used = [i \in 1..Len(segments) |-> FALSE]
    /\ marks = [i \in 1..Len(segments) |-> 0]
    /\ ring = <<>>
    /\ rings = <<>>
    /\ changed = FALSE
    /\ idx = 0
    /\ rpc = "pick"
    /\ QuietExcept("ring")

\* ---- steps ----------------------------------------------------------

\* `start = next(i for unused)`; seed the chain and enter the while loop.
PickSeed ==
    /\ rpc = "pick"
    /\ Unused # {}
    /\ LET start == Min(Unused) IN
        /\ ring' = segments[start]
        /\ used' = [used EXCEPT ![start] = TRUE]
        /\ marks' = [marks EXCEPT ![start] = @ + 1]
    /\ changed' = FALSE
    /\ idx' = 1
    /\ rpc' = "scan"
    /\ UNCHANGED <<fn, segments, rings>>
    /\ UNCHANGED notRingVars

\* `if start is None: break` and `return rings` (also the empty input).
Return ==
    /\ rpc = "pick"
    /\ Unused = {}
    /\ rpc' = "done"
    /\ UNCHANGED <<fn, segments, used, ring, rings, changed, idx, marks>>
    /\ UNCHANGED notRingVars

\* One iteration of `for i, seg in enumerate(segments)`.
ScanStep ==
    /\ rpc = "scan"
    /\ idx <= NSegs
    /\ LET seg == segments[idx] IN
        IF SkipSeg(fn, idx, seg)
        THEN /\ idx' = idx + 1
             /\ UNCHANGED <<ring, used, marks, changed, rpc>>
        ELSE IF ring = <<>> \/ seg = <<>>
        THEN \* ring[-1] / seg[0] on an empty list: IndexError
             /\ rpc' = "raised"
             /\ UNCHANGED <<ring, used, marks, changed, idx>>
        ELSE LET b == JoinBranch(ring, seg) IN
             /\ ring' = Join(fn, ring, seg, b)
             /\ used' = IF b = 0 THEN used ELSE [used EXCEPT ![idx] = TRUE]
             /\ marks' = IF b = 0 THEN marks ELSE [marks EXCEPT ![idx] = @ + 1]
             /\ changed' = IF b = 0 THEN changed ELSE TRUE
             /\ idx' = idx + 1
             /\ UNCHANGED rpc
    /\ UNCHANGED <<fn, segments, rings>>
    /\ UNCHANGED notRingVars

\* End of a for loop: `while changed` runs another pass or exits.
EndPass ==
    /\ rpc = "scan"
    /\ idx = NSegs + 1
    /\ IF changed
       THEN /\ changed' = FALSE
            /\ idx' = 1
            /\ UNCHANGED rpc
       ELSE /\ rpc' = "close"
            /\ UNCHANGED <<changed, idx>>
    /\ UNCHANGED <<fn, segments, used, ring, rings, marks>>
    /\ UNCHANGED notRingVars

\* Forced closure, the length test and the emission of the chain.
CloseRing ==
    /\ rpc = "close"
    /\ rings' = Emit(rings, Closed(ring))
    /\ rpc' = "pick"
    /\ UNCHANGED <<fn, segments, used, ring, changed, idx, marks>>
    /\ UNCHANGED notRingVars

RingNext == PickSeed \/ Return \/ ScanStep \/ EndPass \/ CloseRing

SpecRing == RingInit /\ [][RingNext]_vars

(***************************************************************************)
(* PART I -- PROPERTIES OF THE RING ASSEMBLER                              *)
(***************************************************************************)

Range(s) == {s[i] : i \in 1..Len(s)}

AllPts(segs) == UNION {Range(segs[i]) : i \in 1..Len(segs)}

RECURSIVE SumLen(_)
SumLen(segs) == IF segs = <<>> THEN 0 ELSE Len(segs[1]) + SumLen(Tail(segs))

\* Points of the cycle the segments form: each junction counted once, plus
\* the closing point.
CycleLen(segs) == SumLen(segs) - Len(segs) + 1

\* An arrangement: an order of the segments and an orientation of each.
Arrangements(segs) == Permutations(1..Len(segs)) \X [1..Len(segs) -> BOOLEAN]

ArrStart(segs, a, k) ==
    IF a[2][k] THEN segs[a[1][k]][1] ELSE Last(segs[a[1][k]])

ArrEnd(segs, a, k) ==
    IF a[2][k] THEN Last(segs[a[1][k]]) ELSE segs[a[1][k]][1]

Succ(k, n) == (k % n) + 1

\* The two segment ends that meet at the k-th junction of an arrangement.
Junction(segs, a, k) ==
    {ArrEnd(segs, a, k), ArrStart(segs, a, Succ(k, Len(segs)))}

\* The segments form one connected cycle, neighbouring ends within eps.
IsCycle(segs) ==
    /\ Len(segs) >= 1
    /\ \E a \in Arrangements(segs) : \A k \in 1..Len(segs) :
          _close(ArrEnd(segs, a, k), ArrStart(segs, a, Succ(k, Len(segs))))

\* A simple cycle: as IsCycle, and the ends meeting at different junctions
\* are farther apart than eps. With `exact`, the matching ends are equal.
IsSimpleCycle(segs, exact) ==
    /\ Len(segs) >= 1
    /\ \E a \in Arrangements(segs) :
          /\ \A k \in 1..Len(segs) :
                /\ _close(ArrEnd(segs, a, k),
                          ArrStart(segs, a, Succ(k, Len(segs))))
                /\ exact => ArrEnd(segs, a, k) =
                                ArrStart(segs, a, Succ(k, Len(segs)))
          /\ \A k, l \in 1..Len(segs) : k # l =>
                \A x \in Junction(segs, a, k), y \in Junction(segs, a, l) :
                    ~_close(x, y)

C3_CloseStepOk ==
    rpc = "close" =>
        rings' =
            IF ~_close(ring[1], Last(ring))
            THEN IF Len(ring) + 1 >= 4
                 THEN Append(rings, Append(ring, ring[1]))
                 ELSE rings
            ELSE IF Len(ring) >= 4 THEN Append(rings, ring) ELSE rings

\* C3: every emitted ring has at least 4 points and its first and last
\* points within eps; a chain whose ends do not meet is emitted with a copy
\* of its first point appended, unless it then still has fewer than 4
\* points, in which case (as for any chain under 4 points) nothing is
\* emitted.
C3_RingsWellFormed ==
    /\ [](\A k \in 1..Len(rings) :
            Len(rings[k]) >= 4 /\ _close(rings[k][1], Last(rings[k])))
    /\ [][C3_CloseStepOk]_vars

\* Witness of C3: an open chain was just emitted with its first point
\* appended, after another, too short, chain was dropped.
C3_Witness ==
    /\ rpc = "pick"
    /\ ring # <<>>
    /\ ~_close(ring[1], Last(ring))
    /\ rings = <<Append(ring, ring[1])>>
    /\ Cardinality({i \in 1..NSegs : used[i]}) >= 2
    /\ ring = segments[Len(segments)]

\* A bound on the steps left: strictly smaller after every step.
RingMeasure ==
    LET n == NSegs
        rank == CASE rpc = "scan" -> 3 [] rpc = "close" -> 2
                  [] rpc = "pick" -> 1 [] OTHER -> 0
        left == IF rpc = "scan" THEN n + 1 - idx ELSE 0
        flag == IF rpc = "scan" /\ changed THEN n + 4 ELSE 0
    IN  Cardinality(Unused) * (2 * n + 9) + flag + left + rank

\* C4: the assembler never raises and never stops before it returns, every
\* step brings it closer to returning, no segment is marked used twice, and
\* on return every segment has been marked used exactly once.
C4_TerminatesAllConsumedOnce ==
    /\ [](/\ rpc # "raised"
          /\ rpc # "done" => ENABLED RingNext
          /\ RingMeasure >= 0
          /\ \A i \in 1..NSegs : marks[i] <= 1 /\ (used[i] <=> marks[i] = 1)
          /\ rpc = "done" => \A i \in 1..NSegs : used[i] /\ marks[i] = 1)
    /\ [][RingMeasure' < RingMeasure]_vars

\* Witness of C4: three segments were consumed in two chains; the first
\* two were joined into the one emitted ring, the third formed a chain of
\* its own, which was dropped.
C4_Witness ==
    /\ rpc = "done"
    /\ NSegs = 3
    /\ Len(rings) = 1
    /\ Len(rings[1]) > Len(segments[1]) + 1
    /\ ring = segments[3]
    /\ \A i \in 1..NSegs : marks[i] = 1

\* C28: on segments of at least 2 points the two assemblers are the same
\* algorithm: every step one of them takes is the step the other takes
\* from the same state (same skip test, same join, same flags), so from
\* the same segments both return the same rings, point by point.
C28_SameAlgorithm ==
    [][ LET other == IF fn = "_assemble_rings" THEN "_assemble_ring_coords"
                     ELSE "_assemble_rings"
        IN  /\ fn' = fn
            /\ \A i \in 1..Len(segments) : Len(segments[i]) >= 2
            /\ rpc' # "raised"
            /\ (rpc = "scan" /\ idx <= Len(segments)) =>
                   LET seg == segments[idx] IN
                   IF SkipSeg(other, idx, seg)
                   THEN ring' = ring /\ used' = used /\ changed' = changed
                   ELSE LET j == JoinBranch(ring, seg) IN
                        /\ ring' = Join(other, ring, seg, j)
                        /\ used'[idx] = (j # 0)
                        /\ changed' = (changed \/ j # 0) ]_vars

\* Witness of C28: _assemble_ring_coords has joined the second segment by
\* its far end, reversed, and returned the ring that results.
C28_Witness ==
    /\ fn = "_assemble_ring_coords"
    /\ rpc = "done"
    /\ segments = << << <<0, 0>>, <<6, 6>>, <<0, 2>> >>,
                     << <<0, 0>>, <<6, 6>>, <<0, 2>> >> >>
    /\ rings = << << <<0, 0>>, <<6, 6>>, <<0, 2>>, <<6, 6>>, <<0, 0>> >> >>

(***************************************************************************)
(* PART II -- RASTER BASEMAP AND BATCH DRIVER                              *)
(*                                                                         *)
(* One deck directory and one generating process at a time.  The process   *)
(* runs either one generate_raster_basemap call or generate_all (the       *)
(* basemap call followed by the overlays); it advances one file-system     *)
(* effect per step, and can be killed between any two steps.  A file is    *)
(* modelled by its pixel dimensions.                                       *)
(***************************************************************************)

BASEMAP_LONG_EDGE == 7680
BASEMAP_SHORT_EDGE == 4320
FIGURE_DPI == 480
HS_BUF == 4

\* Bound: number of groups of the deck (two overlays each).
MaxGroups == 1

\* The decks: latitude-corrected aspect ratios w / h, one landscape and one
\* portrait, both with a short side over the limit before shrinking.
Decks == { <<45, 29>>, <<7, 9>> }

\* ---- exact rational arithmetic on <<numerator, denominator>> --------

RECURSIVE GCD(_, _)
GCD(a, b) == IF b = 0 THEN a ELSE GCD(b, a % b)

Q(n, d) == LET g == GCD(n, d) IN <<n \div g, d \div g>>

QMul(a, b) == Q(a[1] * b[1], a[2] * b[2])

QDiv(a, b) == Q(a[1] * b[2], a[2] * b[1])

QLess(a, b) == a[1] * b[2] < b[1] * a[2]

\* Python: int(x) for x >= 0
QInt(a) == a[1] \div a[2]

\* ---- pixel dimensions -----------------------------------------------

\* Mutant of _corrected_figsize: the short side is never shrunk.
_corrected_figsize_mutNoShrink(aspect) ==
    LET long == Q(BASEMAP_LONG_EDGE, 1)
        w0   == IF ~QLess(aspect, Q(1, 1)) THEN long ELSE QMul(long, aspect)
        h0   == IF ~QLess(aspect, Q(1, 1)) THEN QDiv(long, aspect) ELSE long
    IN  << QDiv(w0, Q(FIGURE_DPI, 1)), QDiv(h0, Q(FIGURE_DPI, 1)) >>

\* (width_inches, height_inches) of a deck of the given aspect ratio.
_corrected_figsize(aspect) ==
    LET long  == Q(BASEMAP_LONG_EDGE, 1)
        w0    == IF ~QLess(aspect, Q(1, 1)) THEN long ELSE QMul(long, aspect)
        h0    == IF ~QLess(aspect, Q(1, 1)) THEN QDiv(long, aspect) ELSE long
        short == IF QLess(w0, h0) THEN w0 ELSE h0
        shrink == QLess(Q(BASEMAP_SHORT_EDGE, 1), short)
        s     == QDiv(Q(BASEMAP_SHORT_EDGE, 1), short)
        w_px  == IF shrink THEN QMul(w0, s) ELSE w0
        h_px  == IF shrink THEN QMul(h0, s) ELSE h0
    IN  << QDiv(w_px, Q(FIGURE_DPI, 1)), QDiv(h_px, Q(FIGURE_DPI, 1)) >>

\* (width_px, height_px) of the basemap raster.
_compute_pixel_dims(aspect) ==
    LET in == _corrected_figsize(aspect) IN
    << QInt(QMul(in[1], Q(FIGURE_DPI, 1))), QInt(QMul(in[2], Q(FIGURE_DPI, 1))) >>

\* Python / numpy: the length of a[lo:hi] for an axis of n entries.
SliceLen(n, lo, hi) ==
    LET l == IF lo < n THEN lo ELSE n
        h == IF hi < n THEN hi ELSE n
    IN  IF h > l THEN h - l ELSE 0

\* Mutant of HillshadeDims: the buffered array is saved without the crop.
HillshadeDims_mutNoCrop(dims, buf_top, buf_left) ==
    << dims[1] + buf_left + HS_BUF, dims[2] + buf_top + HS_BUF >>

\* Dimensions of the hillshade (and ocean mask) image: the DEM is read
\* with a buffer around the bbox and the buffer is cropped off again.
HillshadeDims(dims, buf_top, buf_left) ==
    LET read_h == dims[2] + buf_top + HS_BUF
        read_w == dims[1] + buf_left + HS_BUF
    IN  << SliceLen(read_w, buf_left, buf_left + dims[1]),
           SliceLen(read_h, buf_top, buf_top + dims[2]) >>

\* create_figure: plt.figure(figsize=_corrected_figsize(d)) with the axes
\* filling the whole figure; the figure's size in inches.
create_figure(aspect) == _corrected_figsize(aspect)

\* fig.savefig(tmp_path, dpi=...) without bbox_inches: the Agg canvas has
\* int(width_inches * dpi) x int(height_inches * dpi) pixels.
savefig(figsize, dpi) ==
    << QInt(QMul(figsize[1], Q(dpi, 1))), QInt(QMul(figsize[2], Q(dpi, 1))) >>

\* Mutant of OverlayDims: the canvas size is rounded up.
OverlayDims_mutCeil(aspect) ==
    LET f == create_figure(aspect)
        up(q) == -((-(q[1])) \div q[2])
    IN  << up(QMul(f[1], Q(FIGURE_DPI, 1))), up(QMul(f[2], Q(FIGURE_DPI, 1))) >>

\* Dimensions of a transparent overlay: the figure of create_figure saved
\* by save_figure at FIGURE_DPI (the WebP re-save keeps the size).
OverlayDims(aspect) == savefig(create_figure(aspect), FIGURE_DPI)

\* ---- files ----------------------------------------------------------

NoFile == <<>>

\* File ids are <<kind, group>>; group 0 for the files not tied to a group.
HillshadePng == <<"hillshade.png", 0>>
OceanMaskPng == <<"ocean_mask.png", 0>>
LakesPng == <<"lakes.png", 0>>
RiversPng == <<"rivers.png", 0>>
BasemapWebp == <<"basemap.webp", 0>>

LayerFiles == {HillshadePng, OceanMaskPng, LakesPng, RiversPng}

\* The overlays in the order generate_all makes them.
Overlays ==
    << <<"partition.webp", 0>>, <<"context.webp", 0>> >> \o
    [k \in 1..(2 * MaxGroups) |->
        IF k % 2 = 1 THEN <<"front.webp", (k + 1) \div 2>>
                     ELSE <<"back.webp", k \div 2>>]

OverlayFiles == {Overlays[k] : k \in 1..Len(Overlays)}

\* save_figure: out_path.with_suffix(".png")
TmpOf(f) ==
    << CASE f[1] = "partition.webp" -> "partition.png"
         [] f[1] = "context.webp" -> "context.png"
         [] f[1] = "front.webp" -> "front.png"
         [] OTHER -> "back.png",
       f[2] >>

TmpFiles == {TmpOf(f) : f \in OverlayFiles}

\* What an uninterrupted generate_all leaves in an empty directory.
Artifacts == LayerFiles \cup {BasemapWebp} \cup OverlayFiles

FileIds == Artifacts \cup TmpFiles

Present(fs) == {f \in FileIds : fs[f] # NoFile}

FlagSets ==
    [force : BOOLEAN, force_hillshade : BOOLEAN,
     force_lakes : BOOLEAN, force_rivers : BOOLEAN]

NoFlags ==
    [force |-> FALSE, force_hillshade |-> FALSE,
     force_lakes |-> FALSE, force_rivers |-> FALSE]

AnyFlag(fl) ==
    fl.force \/ fl.force_hillshade \/ fl.force_lakes \/ fl.force_rivers

\* Mutant of LayerForce: any force flag refreshes every layer.
LayerForce_mutAnyFlag(layer, fl) == AnyFlag(fl)

\* The `force` argument generate_raster_basemap passes to a layer renderer.
LayerForce(layer, fl) ==
    CASE layer = HillshadePng -> fl.force \/ fl.force_hillshade
      [] layer = LakesPng -> fl.force \/ fl.force_lakes
      [] OTHER -> fl.force \/ fl.force_rivers

\* A layer renderer's cache test: `if not force and layer_path.exists()`.
Cached(layer, fl, fs) == ~LayerForce(layer, fl) /\ fs[layer] # NoFile

\* The guard at the top of generate_raster_basemap.
EarlyReturn(fl, fs) ==
    ~fl.force /\ ~fl.force_hillshade /\ ~fl.force_lakes /\ ~fl.force_rivers
        /\ fs[BasemapWebp] # NoFile

Dims == _compute_pixel_dims(deck)

Write(f, content) ==
    /\ files' = [files EXCEPT ![f] = content]
    /\ written' = written \cup {f}

BasemapInit ==
    /\ deck \in Decks
    /\ dem_tif \in BOOLEAN
    /\ files = [f \in FileIds |-> NoFile]
    /\ bpc = "idle"
    /\ mode = "basemap"
    /\ flags = NoFlags
    /\ buf = <<0, 0>>
    /\ ov = 0
    /\ pre = [f \in FileIds |-> NoFile]
    /\ written = {}
    /\ QuietExcept("base")

\* ---- steps ----------------------------------------------------------

\* A process starts and calls generate_raster_basemap(d, output_path,
\* force, force_hillshade, force_lakes, force_rivers); the guard at the top
\* of the function is evaluated.
StartBasemap ==
    /\ bpc = "idle"
    /\ \E fl \in FlagSets :
        /\ flags' = fl
        /\ bpc' = IF EarlyReturn(fl, files) THEN "bm_ret" ELSE "bm_hs"
    /\ mode' = "basemap"
    /\ pre' = files
    /\ written' = {}
    /\ ov' = 0
    /\ UNCHANGED <<deck, dem_tif, files, buf>>
    /\ UNCHANGED notBaseVars

\* A process starts generate_all(d, force=...); its first statement is
\* _generate_basemap(d, force) = generate_raster_basemap(d, path, force=force).
StartGenerateAll ==
    /\ bpc = "idle"
    /\ \E f \in BOOLEAN :
        LET fl == [NoFlags EXCEPT !.force = f] IN
        /\ flags' = fl
        /\ bpc' = IF EarlyReturn(fl, files) THEN "bm_ret" ELSE "bm_hs"
    /\ mode' = "generate_all"
    /\ pre' = files
    /\ written' = {}
    /\ ov' = 0
    /\ UNCHANGED <<deck, dem_tif, files, buf>>
    /\ UNCHANGED notBaseVars

\* _render_hillshade_layer up to and including the save of hillshade.png.
BM_Hillshade ==
    /\ bpc = "bm_hs"
    /\ IF Cached(HillshadePng, flags, files) \/ ~dem_tif
       THEN \* "cached", or "[WARN] DEM not found": return without a file
            /\ bpc' = "bm_lakes"
            /\ UNCHANGED <<files, written, buf>>
       ELSE \E buf_top, buf_left \in 0..HS_BUF :
            /\ buf' = <<buf_top, buf_left>>
            /\ Write(HillshadePng, HillshadeDims(Dims, buf_top, buf_left))
            /\ bpc' = "bm_ocean"
    /\ UNCHANGED <<deck, dem_tif, mode, flags, ov, pre>>
    /\ UNCHANGED notBaseVars

\* _render_hillshade_layer: the save of ocean_mask.png, after hillshade.png.
BM_OceanMask ==
    /\ bpc = "bm_ocean"
    /\ Write(OceanMaskPng, HillshadeDims(Dims, buf[1], buf[2]))
    /\ buf' = <<0, 0>>
    /\ bpc' = "bm_lakes"
    /\ UNCHANGED <<deck, dem_tif, mode, flags, ov, pre>>
    /\ UNCHANGED notBaseVars

\* _render_lakes_layer: always saves a file unless cached.
BM_Lakes ==
    /\ bpc = "bm_lakes"
    /\ IF Cached(LakesPng, flags, files)
       THEN UNCHANGED <<files, written>>
       ELSE Write(LakesPng, Dims)
    /\ bpc' = "bm_rivers"
    /\ UNCHANGED <<deck, dem_tif, mode, flags, buf, ov, pre>>
    /\ UNCHANGED notBaseVars

\* _render_rivers_layer: always saves a file unless cached.
BM_Rivers ==
    /\ bpc = "bm_rivers"
    /\ IF Cached(RiversPng, flags, files)
       THEN UNCHANGED <<files, written>>
       ELSE Write(RiversPng, Dims)
    /\ bpc' = "bm_comp"
    /\ UNCHANGED <<deck, dem_tif, mode, flags, buf, ov, pre>>
    /\ UNCHANGED notBaseVars

\* The three layers can be opened and combined: Image.open raises
\* FileNotFoundError on a missing file, numpy and alpha_composite raise
\* ValueError on images of different sizes.  ocean_mask.png is only read
\* `if ocean_mask_path.exists()`.
CanComposite(fs) ==
    /\ fs[HillshadePng] # NoFile
    /\ fs[LakesPng] # NoFile
    /\ fs[RiversPng] # NoFile
    /\ fs[LakesPng] = fs[HillshadePng]
    /\ fs[RiversPng] = fs[LakesPng]
    /\ fs[OceanMaskPng] # NoFile => fs[OceanMaskPng] = fs[RiversPng]

\* The compositing block of generate_raster_basemap and the save of the
\* output; the output has the size of the base image (the hillshade).
BM_Composite ==
    /\ bpc = "bm_comp"
    /\ IF CanComposite(files)
       THEN /\ Write(BasemapWebp, files[HillshadePng])
            /\ bpc' = "bm_ret"
       ELSE /\ bpc' = "crashed"
            /\ UNCHANGED <<files, written>>
    /\ UNCHANGED <<deck, dem_tif, mode, flags, buf, ov, pre>>
    /\ UNCHANGED notBaseVars

\* generate_raster_basemap returns: to the caller's end, or into the
\* overlay part of generate_all.
BM_Return ==
    /\ bpc = "bm_ret"
    /\ IF mode = "basemap"
       THEN bpc' = "returned" /\ UNCHANGED ov
       ELSE bpc' = "ov_check" /\ ov' = 1
    /\ UNCHANGED <<deck, dem_tif, files, mode, flags, buf, pre, written>>
    /\ UNCHANGED notBaseVars

\* generate_all: `if force or not path.exists()` for the next overlay, and
\* the end of the function after the last one.
OV_Check ==
    /\ bpc = "ov_check"
    /\ IF ov > Len(Overlays)
       THEN bpc' = "returned" /\ UNCHANGED ov
       ELSE IF flags.force \/ files[Overlays[ov]] = NoFile
       THEN bpc' = "ov_tmp" /\ UNCHANGED ov
       ELSE bpc' = "ov_check" /\ ov' = ov + 1
    /\ UNCHANGED <<deck, dem_tif, files, mode, flags, buf, pre, written>>
    /\ UNCHANGED notBaseVars

\* save_figure: fig.savefig(tmp_path) writes the temporary PNG.
OV_SaveTmp ==
    /\ bpc = "ov_tmp"
    /\ Write(TmpOf(Overlays[ov]), OverlayDims(deck))
    /\ bpc' = "ov_webp"
    /\ UNCHANGED <<deck, dem_tif, mode, flags, buf, ov, pre>>
    /\ UNCHANGED notBaseVars

\* save_figure: the temporary PNG is re-saved as WebP.
OV_SaveWebp ==
    /\ bpc = "ov_webp"
    /\ Write(Overlays[ov], files[TmpOf(Overlays[ov])])
    /\ bpc' = "ov_unlink"
    /\ UNCHANGED <<deck, dem_tif, mode, flags, buf, ov, pre>>
    /\ UNCHANGED notBaseVars

\* save_figure: tmp_path.unlink(); back to generate_all.
OV_Unlink ==
    /\ bpc = "ov_unlink"
    /\ files' = [files EXCEPT ![TmpOf(Overlays[ov])] = NoFile]
    /\ ov' = ov + 1
    /\ bpc' = "ov_check"
    /\ UNCHANGED <<deck, dem_tif, mode, flags, buf, pre, written>>
    /\ UNCHANGED notBaseVars

\* The process and what it held in memory are gone.
ProcessGone ==
    /\ bpc' = "idle"
    /\ mode' = "basemap"
    /\ flags' = NoFlags
    /\ buf' = <<0, 0>>
    /\ ov' = 0
    /\ pre' = [f \in FileIds |-> NoFile]
    /\ written' = {}

\* The process ends, normally or with the traceback of the exception.
Exit ==
    /\ bpc \in {"returned", "crashed"}
    /\ ProcessGone
    /\ UNCHANGED <<deck, dem_tif, files>>
    /\ UNCHANGED notBaseVars

\* The process is killed between two steps; the files stay as they are.
Kill ==
    /\ bpc \notin {"idle", "returned", "crashed"}
    /\ ProcessGone
    /\ UNCHANGED <<deck, dem_tif, files>>
    /\ UNCHANGED notBaseVars

\* 01_download_data.py fetches the DEM while no generation runs.
DownloadDem ==
    /\ bpc = "idle"
    /\ ~dem_tif
    /\ dem_tif' = TRUE
    /\ UNCHANGED <<deck, files, bpc, mode, flags, buf, ov, pre, written>>
    /\ UNCHANGED notBaseVars

BasemapNext ==
    \/ StartBasemap \/ StartGenerateAll
    \/ BM_Hillshade \/ BM_OceanMask \/ BM_Lakes \/ BM_Rivers
    \/ BM_Composite \/ BM_Return
    \/ OV_Check \/ OV_SaveTmp \/ OV_SaveWebp \/ OV_Unlink
    \/ Exit \/ Kill \/ DownloadDem

SpecBasemap == BasemapInit /\ [][BasemapNext]_vars

(***************************************************************************)
(* PART II -- PROPERTIES OF THE BASEMAP PIPELINE                           *)
(***************************************************************************)

\* The generate_raster_basemap call of the current run has ended, by
\* returning or by raising.
CallEnded == bpc \in {"bm_ret", "crashed"}

\* The flag (or `force`) that asks for a layer's refresh, as documented.
FlagOf(layer) ==
    flags.force \/
        CASE layer = HillshadePng -> flags.force_hillshade
          [] layer = LakesPng -> flags.force_lakes
          [] OTHER -> flags.force_rivers

\* C5 (as stated): a generate_raster_basemap call composites and writes
\* the output if and only if the output was missing or a force flag is
\* set; otherwise it returns without touching any file (so a second call
\* without flags leaves the output as it was).
C5_Original ==
    CallEnded =>
        LET should == pre[BasemapWebp] = NoFile \/ AnyFlag(flags) IN
        /\ BasemapWebp \in written <=> should
        /\ ~should => (bpc = "bm_ret" /\ written = {} /\ files = pre)

\* C6 (as stated): once the layer stage of a call is over, a layer whose
\* flag (and `force`) is clear and whose file existed was left untouched,
\* and a layer whose flag is set or whose file was missing was re-rendered.
C6_Original ==
    bpc = "bm_comp" =>
        \A layer \in {HillshadePng, LakesPng, RiversPng} :
            /\ (~FlagOf(layer) /\ pre[layer] # NoFile) =>
                    (layer \notin written /\ files[layer] = pre[layer])
            /\ (FlagOf(layer) \/ pre[layer] = NoFile) => layer \in written

\* C6 (amended): as stated for the lakes and rivers layers, and for the
\* hillshade layer while the DEM file exists; with the DEM file absent the
\* hillshade is never rendered, whatever its flag, and a cached hillshade
\* stays as it was.
C6_LayerInvalidation ==
    bpc = "bm_comp" =>
        /\ \A layer \in {HillshadePng, LakesPng, RiversPng} :
            /\ (~FlagOf(layer) /\ pre[layer] # NoFile) =>
                    (layer \notin written /\ files[layer] = pre[layer])
            /\ ((FlagOf(layer) \/ pre[layer] = NoFile)
                    /\ (layer = HillshadePng => dem_tif)) =>
                    (layer \in written /\ files[layer] # NoFile)
        /\ ~dem_tif =>
            (HillshadePng \notin written
                /\ files[HillshadePng] = pre[HillshadePng])

\* Witness of C6: with all layers cached, a call with only force_lakes set
\* has re-rendered the lakes and nothing else.
C6_Witness ==
    /\ bpc = "bm_comp"
    /\ flags = [NoFlags EXCEPT !.force_lakes = TRUE]
    /\ \A layer \in LayerFiles : pre[layer] # NoFile
    /\ written = {LakesPng}

\* C7 (as stated): with the DEM file absent and no hillshade cached, the
\* call creates no hillshade file and compositing does not raise.
C7_Original ==
    (bpc \in {"bm_comp", "bm_ret", "crashed"}
        /\ ~dem_tif /\ pre[HillshadePng] = NoFile) =>
        /\ HillshadePng \notin written
        /\ bpc # "crashed"

\* C8 (as stated): a generate_all run without force that follows a killed
\* run ends with every artifact of an uninterrupted run present, nothing
\* else, and has rewritten no artifact that was present when it started.
C8_Original ==
    (bpc = "returned" /\ mode = "generate_all" /\ ~flags.force) =>
        /\ \A f \in Artifacts : files[f] # NoFile
        /\ \A f \in Artifacts : pre[f] # NoFile => f \notin written
        /\ Present(files) = Artifacts

\* C10: every layer file and the composite that exist have the pixel
\* dimensions _compute_pixel_dims gives for the deck, hence all the same.
C10_DimsAgree ==
    LET present == { f \in LayerFiles \cup {BasemapWebp} : files[f] # NoFile }
        dims    == _compute_pixel_dims(deck)
    IN  present # {} =>
            \A f \in present :
                /\ files[f] = dims
                /\ \A g \in present : files[g] = files[f]

\* Witness of C10: a portrait deck whose layers and composite were all
\* rewritten by a forced call over an existing basemap.
C10_Witness ==
    /\ bpc = "returned"
    /\ flags.force
    /\ pre[BasemapWebp] # NoFile
    /\ LayerFiles \cup {BasemapWebp} \subseteq written
    /\ files[BasemapWebp][1] < files[BasemapWebp][2]
    /\ files[HillshadePng] = files[RiversPng]

(***************************************************************************)
(* PART III -- ONE PIXEL THROUGH THE RASTER PIPELINE                       *)
(*                                                                         *)
(* The layer renderers and the compositing block work pixel by pixel; the  *)
(* model follows one pixel from the source data (elevation, shading, lake  *)
(* and river coverage) through the three layers to the composited image    *)
(* `final`, before it is encoded as WebP.                                  *)
(***************************************************************************)

\* Colours of deck.py as their hex digits: "#c6ddf0", "#4A7FB5", "#7FAFCF".
OCEAN_COLOR == <<12, 6, 13, 13, 15, 0>>
RIVER_COLOR == <<4, 10, 7, 15, 11, 5>>
LAKE_FACECOLOR == <<7, 15, 10, 15, 12, 15>>

\* '#RRGGBB' -> (R, G, B) in 0-255.
_hex_to_rgb(h) == << 16 * h[1] + h[2], 16 * h[3] + h[4], 16 * h[5] + h[6] >>

\* Supersampling factor of the rivers layer.
ss == 2

NoPixel == <<>>

\* Sampled elevations: the no-data sentinel, the threshold of the sentinel
\* test, below and at sea level, and land.
ElevSamples == {-9999, -100, -50, 0, 1}

\* Shaded terrain colours (uint8 RGB); one of them is the river colour.
ShadeSamples == { <<143, 179, 120>>, <<242, 242, 247>>, <<74, 127, 181>> }

\* Mutant of HillshadePx: sea level itself is not ocean.
HillshadePx_mutBelowZero(elev, shade) ==
    LET dem == IF elev < -100 THEN 0 ELSE elev
        ocean_mask == dem < 0
    IN  [ rgb  |-> IF ocean_mask THEN _hex_to_rgb(OCEAN_COLOR) ELSE shade,
          mask |-> IF ocean_mask THEN 255 ELSE 0 ]

\* _render_hillshade_layer at one pixel: the sentinel replaced, the ocean
\* mask, the ocean colour over the shading (ocean_rgb[c] / 255.0 * 255
\* truncates back to ocean_rgb[c] for the three channels of OCEAN_COLOR).
HillshadePx(elev, shade) ==
    LET dem == IF elev < -100 THEN 0 ELSE elev
        ocean_mask == dem <= 0
    IN  [ rgb  |-> IF ocean_mask THEN _hex_to_rgb(OCEAN_COLOR) ELSE shade,
          mask |-> IF ocean_mask THEN 255 ELSE 0 ]

\* _render_lakes_layer at one pixel: lake colour, opaque, inside a lake
\* polygon; transparent black elsewhere (and everywhere without lakes).
LakesPx(lake) ==
    IF lake THEN _hex_to_rgb(LAKE_FACECOLOR) \o <<255>> ELSE <<0, 0, 0, 0>>

\* _render_rivers_layer at one pixel: `cov` of the ss x ss subsamples are
\* covered by a river line; alpha is their mean, truncated to uint8.
RiversPx(rivers_empty, cov) ==
    IF rivers_empty THEN <<0, 0, 0, 0>>
    ELSE _hex_to_rgb(RIVER_COLOR) \o << (255 * cov) \div (ss * ss) >>

\* Pillow: SHIFTFORDIV255(a) = ((a >> 8) + a) >> 8
SHIFTFORDIV255(a) == ((a \div 256) + a) \div 256

\* Pillow: Image.alpha_composite(dst, src) at one RGBA pixel (integer
\* implementation with 7 bits of extra precision).
AlphaComposite(dst, src) ==
    IF src[4] = 0 THEN dst
    ELSE LET blend   == dst[4] * (255 - src[4])
             outa255 == src[4] * 255 + blend
             coef1   == (src[4] * 255 * 255 * 128) \div outa255
             coef2   == 255 * 128 - coef1
             ch(c)   == SHIFTFORDIV255(src[c] * coef1 + dst[c] * coef2
                                           + 128 * 128) \div 128
         IN  << ch(1), ch(2), ch(3), SHIFTFORDIV255(outa255 + 128) >>

\* Mutant of RiverAlpha: the river is not erased under the lakes.
RiverAlpha_mutKeepUnderLake(lake_a, river_a, has_mask, mask) ==
    IF has_mask /\ mask > 0 THEN 0 ELSE river_a

\* The river alpha used for blending: erased where the lakes layer is not
\* transparent and, if ocean_mask.png exists, where the ocean mask is set.
RiverAlpha(lake_a, river_a, has_mask, mask) ==
    LET a == IF lake_a > 0 THEN 0 ELSE river_a
    IN  IF has_mask /\ mask > 0 THEN 0 ELSE a

\* The compositing block of generate_raster_basemap at one pixel.
CompositePx(l, has_mask) ==
    LET base  == l.hillshade \o <<255>>
        river == << l.rivers[1], l.rivers[2], l.rivers[3],
                    RiverAlpha(l.lakes[4], l.rivers[4], has_mask, l.mask) >>
        over  == AlphaComposite(AlphaComposite(base, l.lakes), river)
    IN  << over[1], over[2], over[3] >>

PixelInit ==
    /\ px_src \in
        { s \in [ elev : ElevSamples, shade : ShadeSamples, lake : BOOLEAN,
                  rivers_empty : BOOLEAN, cov : 0..(ss * ss),
                  has_mask : BOOLEAN ] :
            s.rivers_empty => s.cov = 0 }
    /\ px_layers = NoPixel
    /\ px_final = NoPixel
    /\ ppc = "render"
    /\ QuietExcept("pix")

\* The three layer renderers.
PX_Render ==
    /\ ppc = "render"
    /\ px_layers' =
        LET hs == HillshadePx(px_src.elev, px_src.shade) IN
        [ hillshade |-> hs.rgb,
          mask      |-> hs.mask,
          lakes     |-> LakesPx(px_src.lake),
          rivers    |-> RiversPx(px_src.rivers_empty, px_src.cov) ]
    /\ ppc' = "composite"
    /\ UNCHANGED <<px_src, px_final>>
    /\ UNCHANGED notPixVars

\* The compositing block, up to `final = base.convert("RGB")`.
PX_Composite ==
    /\ ppc = "composite"
    /\ px_final' = CompositePx(px_layers, px_src.has_mask)
    /\ ppc' = "done"
    /\ UNCHANGED <<px_src, px_layers>>
    /\ UNCHANGED notPixVars

PixelNext == PX_Render \/ PX_Composite

SpecPixel == PixelInit /\ [][PixelNext]_vars

(***************************************************************************)
(* PART III -- PROPERTIES OF THE PIXEL PIPELINE                            *)
(***************************************************************************)

C18_Original ==
    (ppc = "done" /\ px_src.elev <= 0) =>
        px_final = IF px_layers.lakes[4] > 0 THEN <<127, 175, 207>>
                                             ELSE <<198, 221, 240>>

\* C20: in the hillshade layer the ocean mask is set exactly where the
\* elevation, with values below -100 replaced by 0, is <= 0, and every
\* pixel of the mask has exactly the ocean colour (198, 221, 240),
\* whatever the shading gave there.
C20_OceanMaskAndColour ==
    ppc \in {"composite", "done"} =>
        LET dem == IF px_src.elev < -100 THEN 0 ELSE px_src.elev IN
        /\ px_layers.mask \in {0, 255}
        /\ px_layers.mask = 255 <=> dem <= 0
        /\ px_layers.mask = 255 => px_layers.hillshade = <<198, 221, 240>>
        /\ px_layers.mask = 0 => px_layers.hillshade = px_src.shade

\* Witness of C20: a no-data pixel (-9999) whose shading was another colour
\* is rendered as ocean and set in the mask.
C20_Witness ==
    /\ ppc = "composite"
    /\ px_src.elev = -9999
    /\ px_src.shade = <<74, 127, 181>>
    /\ px_layers.mask = 255
    /\ px_layers.hillshade = <<198, 221, 240>>

\* ---- registry of decks (deck.py) ------------------------------------

\* Valid (region, system) pairs.
VALID_COMBINATIONS ==
    [ ostalpen  |-> {"ave84", "soiusa_sz", "soiusa_sts", "pois"},
      westalpen |-> {"soiusa_sz", "soiusa_sts"} ]

\* Merged systems: key "region_primary" as <<region, primary>>.
SUBDECK_MERGE ==
    { [ key |-> <<"ostalpen", "soiusa">>, systems |-> {"soiusa_sz", "soiusa_sts"} ],
      [ key |-> <<"westalpen", "soiusa">>, systems |-> {"soiusa_sz", "soiusa_sts"} ] }

\* The SUBDECK_MERGE key of a system that is part of a merge, else <<>>.
_merge_key_for(region_name, system_name) ==
    LET hits == { m \in SUBDECK_MERGE :
                    m.key[1] = region_name /\ system_name \in m.systems }
    IN  IF hits = {} THEN <<>> ELSE (CHOOSE m \in hits : TRUE).key

\* _make_deck: output_dir = "output" / (merge_key or combo_name).
OutputDir(region_name, system_name) ==
    LET merge_key == _merge_key_for(region_name, system_name)
    IN  IF merge_key # <<>> THEN merge_key ELSE <<region_name, system_name>>

\* The latitude-corrected aspect ratio of a region's bounding box
\* (ostalpen 1.552..., westalpen 0.7758...), as the nearby fraction in Decks.
RegionAspect(region_name) ==
    IF region_name = "ostalpen" THEN <<45, 29>> ELSE <<7, 9>>

\* C11: every overlay in the image directory has the pixel dimensions of
\* the directory's basemap (and of _compute_pixel_dims); two decks that
\* share an output directory are of one region, so their basemaps and
\* overlays have the same dimensions too (a fact of the registry, which
\* no step changes: it is looked at while no process runs).
C11_OverlaysMatchBasemap ==
    /\ LET present == { f \in OverlayFiles : files[f] # NoFile }
           dims    == _compute_pixel_dims(deck)
       IN  present # {} =>
               \A f \in present :
                   /\ files[f] = dims
                   /\ files[BasemapWebp] # NoFile =>
                          files[f] = files[BasemapWebp]
    /\ bpc = "idle" => \A r1, r2 \in DOMAIN VALID_COMBINATIONS :
        \A s1 \in VALID_COMBINATIONS[r1], s2 \in VALID_COMBINATIONS[r2] :
            OutputDir(r1, s1) = OutputDir(r2, s2) =>
                /\ r1 = r2
                /\ OverlayDims(RegionAspect(r1))
                       = _compute_pixel_dims(RegionAspect(r2))

\* Witness of C11: generate_all has returned for the landscape deck, whose
\* exact width is not a whole number of pixels, with the basemap and all
\* overlays written in this run.
C11_Witness ==
    /\ bpc = "returned"
    /\ mode = "generate_all"
    /\ deck = RegionAspect("ostalpen")
    /\ OverlayFiles \cup {BasemapWebp} \subseteq written
    /\ \A f \in OverlayFiles : files[f] = <<6703, 4320>>
    /\ OutputDir("ostalpen", "soiusa_sz") = OutputDir("ostalpen", "soiusa_sts")

(***************************************************************************)
(* PART IV -- PIXEL DIMENSIONS OF A BOUNDING BOX                           *)
(*                                                                         *)
(* _compute_pixel_dims as a function of the bounding box.  A box with      *)
(* west < east and south < north has a positive aspect ratio               *)
(* lon_range * cos(mid_lat) / lat_range; the model takes the ratio itself, *)
(* a positive fraction, as the input.                                      *)
(***************************************************************************)

\* Bound: numerator and denominator of the aspect ratios tried.
MaxAspectTerm == 12

DimsInit ==
    /\ bbox_aspect \in (1..MaxAspectTerm) \X (1..MaxAspectTerm)
    /\ pixel_dims = <<>>
    /\ dpc = "call"
    /\ QuietExcept("dims")

\* w_px, h_px = _compute_pixel_dims(d)
DimsCall ==
    /\ dpc = "call"
    /\ pixel_dims' = _compute_pixel_dims(bbox_aspect)
    /\ dpc' = "done"
    /\ UNCHANGED bbox_aspect
    /\ UNCHANGED notDimsVars

DimsNext == DimsCall

SpecDims == DimsInit /\ [][DimsNext]_vars

Max2(a, b) == IF a >= b THEN a ELSE b

Min2(a, b) == IF a <= b THEN a ELSE b

\* C12: the dimensions returned for any bounding box keep the pixel
\* budget in either orientation: the longer side is at most 7680 and the
\* shorter side at most 4320.
C12_PixelBudget ==
    dpc = "done" =>
        /\ Max2(pixel_dims[1], pixel_dims[2]) <= 7680
        /\ Min2(pixel_dims[1], pixel_dims[2]) <= 4320

\* Witness of C12: a portrait box whose short side had to be shrunk to
\* the limit, leaving the long side below its own limit.
C12_Witness ==
    /\ dpc = "done"
    /\ bbox_aspect = <<7, 9>>
    /\ pixel_dims = <<4320, 5554>>

(***************************************************************************)
(* PART V -- LABEL POINT OF A POLYGON                                      *)
(*                                                                         *)
(* _label_point on C-shaped polygons, symmetric about a horizontal axis:   *)
(*                                                                         *)
(*      (0,H) +-----------------+ (W,H)      s  thickness of the spine     *)
(*            |      arm        |            a  thickness of each arm      *)
(*            |     +-----------+ (W,a+g)    g  height of the notch        *)
(*            |spine| notch                  d  depth of the notch         *)
(*            |     +-----------+ (W,a)      W = s + d,  H = 2a + g        *)
(*            |      arm        |                                          *)
(*      (0,0) +-----------------+ (W,0)                                    *)
(*                                                                         *)
(* Lengths are whole units; the erosion distance diag * frac is rounded to *)
(* the nearest unit.  Points are kept as exact fractions.                  *)
(***************************************************************************)

\* Mutant of LABEL_SHRINK_FRACTIONS: the fractions in ascending order.
LABEL_SHRINK_FRACTIONS_mutAscending == <<1, 3, 6, 10>>

\* deck.py: (0.10, 0.06, 0.03, 0.01), in percent.
LABEL_SHRINK_FRACTIONS == <<10, 6, 3, 1>>

\* Thicknesses of spine and arms, notch heights and depths tried.
Thicknesses == {4, 20, 40, 80, 160}
NotchHeights == {20, 40, 80}
NotchDepths == {60, 120}

Polygons ==
    [ s : Thicknesses, a : Thicknesses, g : NotchHeights, d : NotchDepths ]

PolyW(p) == p.s + p.d

PolyH(p) == 2 * p.a + p.g

\* Integer square root, rounded down (by bisection).
RECURSIVE ISqrtIn(_, _, _)
ISqrtIn(n, lo, hi) ==
    IF lo = hi THEN lo
    ELSE LET mid == (lo + hi + 1) \div 2 IN
         IF mid * mid <= n THEN ISqrtIn(n, mid, hi) ELSE ISqrtIn(n, lo, mid - 1)

ISqrt(n) == ISqrtIn(n, 0, 46340)

\* diag = ((maxx - minx) ** 2 + (maxy - miny) ** 2) ** 0.5, and the
\* erosion distance diag * frac, to the nearest unit.
ShrinkDist(p, frac) ==
    LET diag10 == ISqrt(100 * (PolyW(p) * PolyW(p) + PolyH(p) * PolyH(p)))
    IN  (diag10 * frac + 500) \div 1000

\* polygon.buffer(-t): what is left of the C-shape.  "C": spine and both
\* arms, in one piece; "spine": the arms are gone; "arms": the spine is
\* gone, two pieces of equal area; "empty".
ShrunkKind(p, t) ==
    IF p.s > 2 * t /\ p.a > 2 * t THEN "C"
    ELSE IF p.s > 2 * t THEN "spine"
    ELSE IF p.a > 2 * t THEN "arms"
    ELSE "empty"

\* Centroid of the eroded C-shape.  The erosion is the spine rectangle
\* [t, s-t] x [t, H-t], the two arm rectangles [s-t, W-t] x [t, a-t] (and
\* mirrored), and at each of the two inner corners of the notch the
\* square of side t less a quarter disc (round joins): area
\* (1 - pi/4) t^2, taken as 3/14 t^2, first moment about x = s exactly
\* -t^3/6.  By symmetry y = H/2.
CentroidC(p, t) ==
    LET W == PolyW(p)
        H == PolyH(p)
        spine == (p.s - 2 * t) * (H - 2 * t)
        arms  == 2 * p.d * (p.a - 2 * t)
        n42   == 21 * (spine * p.s + arms * (p.s + W - 2 * t))
                     + 18 * t * t * p.s - 14 * t * t * t
        d21   == 21 * (spine + arms) + 9 * t * t
    IN  [ xn |-> n42, xd |-> 2 * d21, yn |-> H, yd |-> 2 ]

\* shrunk.centroid, after `max(shrunk.geoms, key=area)` for a MultiPolygon
\* (of two equal pieces either may come first: lower = TRUE, the lower).
ShrunkCentroid(p, t, lower) ==
    CASE ShrunkKind(p, t) = "C" -> CentroidC(p, t)
      [] ShrunkKind(p, t) = "spine" ->
            [ xn |-> p.s, xd |-> 2, yn |-> PolyH(p), yd |-> 2 ]
      [] OTHER ->
            [ xn |-> PolyW(p), xd |-> 2,
              yn |-> IF lower THEN p.a ELSE 2 * PolyH(p) - p.a, yd |-> 2 ]

\* The point lies in the interior of the polygon.
PointInPolygon(p, q) ==
    /\ 0 < q.xn /\ q.xn < PolyW(p) * q.xd
    /\ 0 < q.yn /\ q.yn < PolyH(p) * q.yd
    /\ ~( /\ q.xn >= p.s * q.xd
          /\ q.yn >= p.a * q.yd
          /\ q.yn <= (p.a + p.g) * q.yd )

\* polygon.centroid of the C-shape itself.
PolyCentroid(p) ==
    LET W == PolyW(p)
        H == PolyH(p)
    IN  [ xn |-> W * H * W - p.d * p.g * (2 * p.s + p.d),
          xd |-> 2 * (W * H - p.d * p.g), yn |-> H, yd |-> 2 ]

LabelInit ==
    /\ polygon \in Polygons
    /\ frac_i = 1
    /\ label_pt = <<>>
    /\ lpc = "loop"
    /\ QuietExcept("label")

\* One iteration of `for frac in D.LABEL_SHRINK_FRACTIONS`.
LP_Shrink ==
    /\ lpc = "loop"
    /\ frac_i <= Len(LABEL_SHRINK_FRACTIONS)
    /\ LET t == ShrinkDist(polygon, LABEL_SHRINK_FRACTIONS[frac_i]) IN
        IF ShrunkKind(polygon, t) = "empty"
        THEN /\ frac_i' = frac_i + 1
             /\ UNCHANGED <<label_pt, lpc>>
        ELSE /\ \E lower \in BOOLEAN :
                    label_pt' = ShrunkCentroid(polygon, t, lower)
             /\ lpc' = "done"
             /\ UNCHANGED frac_i
    /\ UNCHANGED polygon
    /\ UNCHANGED notLabelVars

\* `return polygon.representative_point()`: some interior point; here the
\* middle of the spine or of an arm.
LP_Fallback ==
    /\ lpc = "loop"
    /\ frac_i > Len(LABEL_SHRINK_FRACTIONS)
    /\ label_pt' \in
        { [ xn |-> polygon.s, xd |-> 2, yn |-> PolyH(polygon), yd |-> 2 ],
          [ xn |-> PolyW(polygon), xd |-> 2, yn |-> polygon.a, yd |-> 2 ] }
    /\ lpc' = "done"
    /\ UNCHANGED <<polygon, frac_i>>
    /\ UNCHANGED notLabelVars

LabelNext == LP_Shrink \/ LP_Fallback

SpecLabel == LabelInit /\ [][LabelNext]_vars

\* C13 (as stated): for a concave polygon whose centroid lies outside the
\* polygon, the point _label_point returns lies inside the polygon.
C13_Original ==
    (lpc = "done" /\ ~PointInPolygon(polygon, PolyCentroid(polygon))) =>
        PointInPolygon(polygon, label_pt)

MaxIter == 20

\* QMARK_MIN_RADIUS_ABS, in its own unit.
QMARK_MIN_RADIUS_ABS == 1

\* QMARK_FONTSIZE_MIN, in points, and QMARK_FILL_FACTOR = 0.85.
QMARK_FONTSIZE_MIN == 14
QMARK_FILL_FACTOR == <<17, 20>>

\* QMARK_MIN_RADIUS_RATIO = 0.45 and QMARK_MAX_REST_AREA = 0.40.
QMARK_MIN_RADIUS_RATIO == <<9, 20>>
QMARK_MAX_REST_AREA == <<2, 5>>

\* Bound: the largest candidate radius.
MaxRadius == 3

\* Polygon areas tried.
GeomAreas == {0, 12, 30}

\* Area of pole.buffer(r), with pi taken as 3.
CircleArea(r) == 3 * r * r

\* Mutant of CapReached: the cap is off by one.
CapReached_mutOffByOne(i) == i > MaxIter

\* The for loop has run out.
CapReached(i) == i >= MaxIter

\* Mutant of RatioStop: either condition stops the packing.
RatioStop_mutEither(r, rmax, rest, area) ==
    \/ ~(r * QMARK_MIN_RADIUS_RATIO[2] >= QMARK_MIN_RADIUS_RATIO[1] * rmax)
    \/ rest * QMARK_MAX_REST_AREA[2] <= QMARK_MAX_REST_AREA[1] * area

\* Mutant of RatioStop: the packing never stops on the ratio.
RatioStop_mutNever(r, rmax, rest, area) == FALSE

\* Mutant of RatioStop: the rest area is not looked at.
RatioStop_mutIgnoreRest(r, rmax, rest, area) ==
    ~(r * QMARK_MIN_RADIUS_RATIO[2] >= QMARK_MIN_RADIUS_RATIO[1] * rmax)

\* `not ratio_ok and rest_pct <= D.QMARK_MAX_REST_AREA`
RatioStop(r, rmax, rest, area) ==
    LET ratio_ok == r * QMARK_MIN_RADIUS_RATIO[2]
                        >= QMARK_MIN_RADIUS_RATIO[1] * rmax
        rest_ok  == rest * QMARK_MAX_REST_AREA[2]
                        <= QMARK_MAX_REST_AREA[1] * area
    IN  ~ratio_ok /\ rest_ok

PackInit ==
    /\ geom_area \in GeomAreas
    /\ remaining = geom_area
    /\ r_max = 0
    /\ n_circles = 0
    /\ iter = 0
    /\ first_r = -1
    /\ cand = -1
    /\ r_min = 0
    /\ overlap = FALSE
    /\ glyphs = -1
    /\ font_raw = 0
    /\ font_used = 0
    /\ stop = "none"
    /\ qpc = "loop"
    /\ QuietExcept("pack")

Break(why) ==
    /\ stop' = why
    /\ qpc' = "done"
    /\ UNCHANGED <<remaining, r_max, n_circles, r_min, overlap>>

\* One iteration of the packing loop.
PackStep ==
    /\ qpc = "loop"
    /\ ~CapReached(iter)
    /\ iter' = iter + 1
    /\ IF remaining = 0
       THEN \* remaining.is_empty, or its area or the target's below 1e-10
            Break("empty") /\ cand' = -1 /\ UNCHANGED first_r
       ELSE \E r \in 0..MaxRadius :
            \* pole = polylabel(target); r = pole.distance(geom.boundary)
            /\ CircleArea(r) <= geom_area
            /\ r_max # 0 => r <= r_max
            /\ first_r' = IF first_r = -1 THEN r ELSE first_r
            /\ cand' = r
            /\ IF r < QMARK_MIN_RADIUS_ABS
               THEN Break("abs")
               ELSE IF r_max # 0 /\ RatioStop(r, r_max, remaining, geom_area)
               THEN Break("ratio")
               ELSE \E cut \in 1..CircleArea(r) :
                    \* circles.append; remaining.difference(pole.buffer(r))
                    /\ cut <= remaining
                    /\ remaining' = remaining - cut
                    /\ r_max' = IF r_max = 0 THEN r ELSE r_max
                    /\ n_circles' = n_circles + 1
                    /\ r_min' = IF r_min = 0 \/ r < r_min THEN r ELSE r_min
                    \* r is the distance to the polygon's boundary; the
                    \* pole may be nearer to a circle already emitted.
                    /\ \E nearer \in BOOLEAN :
                        /\ nearer => n_circles > 0
                        /\ overlap' = (overlap \/ nearer)
                    /\ UNCHANGED <<stop, qpc>>
    /\ UNCHANGED <<geom_area, glyphs, font_raw, font_used>>
    /\ UNCHANGED notPackVars

\* The for loop ends after its last iteration.
PackCap ==
    /\ qpc = "loop"
    /\ CapReached(iter)
    /\ stop' = "cap"
    /\ qpc' = "done"
    /\ UNCHANGED <<geom_area, remaining, r_max, n_circles, iter, first_r,
                   cand, r_min, overlap, glyphs, font_raw, font_used>>
    /\ UNCHANGED notPackVars

\* Points per radius unit tried: a region-wide map (about 185 pt per
\* degree, 0.008 degrees per unit) and a close-up.
PtsPerUnit == { <<3, 2>>, <<10, 1>> }

\* fontsize = int(2.0 * r * pts_per_deg * D.QMARK_FILL_FACTOR)
RawFontsize(r, ppu) ==
    (2 * r * ppu[1] * QMARK_FILL_FACTOR[1]) \div (ppu[2] * QMARK_FILL_FACTOR[2])

\* fontsize = max(fontsize, D.QMARK_FONTSIZE_MIN)
UsedFontsize(raw) ==
    IF raw >= QMARK_FONTSIZE_MIN THEN raw ELSE QMARK_FONTSIZE_MIN

\* The glyph loop: one ax.text per circle; nothing if there is no circle.
PackGlyphs ==
    /\ qpc = "done"
    /\ \E ppu \in PtsPerUnit :
        /\ font_raw' = IF n_circles = 0 THEN 0 ELSE RawFontsize(r_min, ppu)
        /\ font_used' = IF n_circles = 0 THEN 0
                        ELSE UsedFontsize(RawFontsize(r_min, ppu))
    /\ glyphs' = n_circles
    /\ qpc' = "drawn"
    /\ UNCHANGED <<geom_area, remaining, r_max, n_circles, iter, first_r,
                   cand, r_min, overlap, stop>>
    /\ UNCHANGED notPackVars

PackNext == PackStep \/ PackCap \/ PackGlyphs

SpecPack == PackInit /\ [][PackNext]_vars

\* C14: the packing loop ends after at most 20 iterations with at most 20
\* circles (it can always step until it has ended, and every step brings
\* the end closer), and it emits at least one circle whenever the first
\* candidate radius is not below the absolute minimum.
C14_PackingTerminates ==
    /\ [](/\ iter <= 20
          /\ n_circles <= 20
          /\ n_circles <= iter
          /\ qpc = "loop" => ENABLED (PackStep \/ PackCap)
          /\ (qpc # "loop" /\ first_r >= 1) => n_circles >= 1)
    /\ [][ qpc = "loop" =>
              (IF qpc' # "loop" THEN 0 ELSE 21 - iter') < 21 - iter ]_vars

\* Witness of C14: the loop was ended by the cap, with 20 circles.
C14_Witness ==
    /\ qpc = "done"
    /\ stop = "cap"
    /\ iter = 20
    /\ n_circles = 20
    /\ first_r >= 1

\* C15: when the loop ends on the radius-ratio condition, the circles
\* emitted cover at least 60% of the polygon: at most 40% of its area
\* remains.
C15_RatioStopCovers ==
    (qpc = "done" /\ stop = "ratio") =>
        /\ 5 * remaining <= 2 * geom_area
        /\ 5 * (geom_area - remaining) >= 3 * geom_area
        /\ n_circles >= 1

\* Witness of C15: the loop ended on the ratio condition with exactly 40%
\* of the polygon uncovered, after two circles.
C15_Witness ==
    /\ qpc = "done"
    /\ stop = "ratio"
    /\ geom_area = 30
    /\ remaining = 12
    /\ n_circles = 2
    /\ r_max = 3

C24_Original ==
    n_circles >= 1 => ~overlap

\* C25 (as stated): a circle whose computed font size is below the
\* minimum of 14 points gets no '?': fewer glyphs than circles are drawn.
C25_Original ==
    (qpc = "drawn" /\ n_circles >= 1 /\ font_raw < 14) =>
        glyphs < n_circles

(***************************************************************************)
(* PART VII -- LOADER CACHES                                               *)
(*                                                                         *)
(* load_dem, _load_osm_borders, _load_osm_lakes, _load_osm_rivers and      *)
(* load_polygons each keep a module-level dict keyed by the source path.   *)
(* The files on disk change behind the process's back.                     *)
(***************************************************************************)

Loaders == {"load_dem", "_load_osm_borders", "_load_osm_lakes",
            "_load_osm_rivers", "load_polygons"}

\* Source paths (one per deck).
Paths == {"ostalpen", "westalpen"}

\* Bound: versions of a file's content, 1..MaxVersion; 0 is a missing file.
MaxVersion == 2

\* `key not in cache`
Unset == <<"unset">>

\* What a loader returns for a missing file: (None, None, None) or an empty
\* GeoDataFrame.
Empty(l) == <<l, 0>>

\* What a loader makes of the file's content.
Parsed(l, v) == <<l, v>>

\* Mutant of CacheHit: the cache is never consulted.
CacheHit_mutNever(c, key) == FALSE

\* `if key in _cache`
CacheHit(c, key) == c[key] # Unset

\* load_polygons returns an empty frame for a missing file without storing
\* it; the other loaders store what they return.
StoresMiss(l) == l # "load_polygons"

CacheInit ==
    /\ loader \in Loaders
    /\ disk \in [Paths -> 0..MaxVersion]
    /\ cache = [p \in Paths |-> Unset]
    /\ call = [seq |-> 0, path |-> "none", ret |-> Unset, read |-> FALSE]
    /\ QuietExcept("cache")

\* One call of the loader for the deck whose source is at path p.
Load(p) ==
    /\ loader \in Loaders
    /\ IF CacheHit(cache, p)
       THEN /\ call' = [seq |-> 1 - call.seq, path |-> p,
                        ret |-> cache[p], read |-> FALSE]
            /\ UNCHANGED cache
       ELSE IF disk[p] = 0
       THEN /\ call' = [seq |-> 1 - call.seq, path |-> p,
                        ret |-> Empty(loader), read |-> FALSE]
            /\ cache' = IF StoresMiss(loader)
                        THEN [cache EXCEPT ![p] = Empty(loader)]
                        ELSE cache
       ELSE /\ call' = [seq |-> 1 - call.seq, path |-> p,
                        ret |-> Parsed(loader, disk[p]), read |-> TRUE]
            /\ cache' = [cache EXCEPT ![p] = Parsed(loader, disk[p])]
    /\ UNCHANGED <<loader, disk>>
    /\ UNCHANGED notCacheVars

\* The file at p is written, replaced or removed by another program.
FileChanges(p) ==
    /\ loader \in Loaders
    /\ \E v \in 0..MaxVersion :
        /\ v # disk[p]
        /\ disk' = [disk EXCEPT ![p] = v]
    /\ UNCHANGED <<loader, cache, call>>
    /\ UNCHANGED notCacheVars

CacheNext ==
    \/ \E p \in Paths : Load(p)
    \/ \E p \in Paths : FileChanges(p)

SpecCache == CacheInit /\ [][CacheNext]_vars

\* C16: each loader cache is append-only: once an entry is stored for a
\* path no step overwrites or removes it, and every later call for that
\* path returns the stored value without reading the file, whatever has
\* happened to the file since.
C16_CacheAppendOnly ==
    [][\A p \in Paths :
         (loader \in Loaders /\ cache[p] # <<"unset">>) =>
             /\ cache'[p] = cache[p]
             /\ (call'.seq # call.seq /\ call'.path = p) =>
                    (call'.ret = cache[p] /\ ~call'.read)]_vars

\* Witness of C16: a call has just returned the stored value, unread, for
\* a path whose file differs from what was stored: it has changed, or it
\* has appeared after a miss was stored.
C16_Witness ==
    /\ loader = "load_dem"
    /\ call.path = "ostalpen"
    /\ ~call.read
    /\ call.ret = cache["ostalpen"]
    /\ cache["ostalpen"] = <<"load_dem", 0>>
    /\ disk["ostalpen"] = 2
    /\ cache["westalpen"] = <<"load_dem", 1>>
    /\ disk["westalpen"] = 2

(***************************************************************************)
(* PART VIII -- BATCH CARD GENERATION AND DECK BUILDING                    *)
(*                                                                         *)
(* generate_all of 03_generate_cards.py writes two overlays per group;     *)
(* generate_apkg of 04_build_deck.py makes one note per group from them.   *)
(* An overlay file is "none" (absent), "blank" (written with nothing drawn *)
(* because no row of the GeoJSON has the group's ref) or "drawn".          *)
(***************************************************************************)

\* Bound: groups of the deck.
MaxBatchGroups == 2

BatchGroups == 1..MaxBatchGroups

OverlayStates == {"none", "blank", "drawn"}

\* render_question_mark / render_single_polygon draw only rows whose ref
\* is the group's; save_figure writes the file in either case.
RenderOverlay(g, polys) == IF g \in polys THEN "drawn" ELSE "blank"

\* `not front_path.exists() or not back_path.exists()`
OverlayMissing(f, b) == f = "none" \/ b = "none"

BatchInit ==
    /\ polygons \in SUBSET BatchGroups
    /\ front \in [BatchGroups -> OverlayStates]
    /\ back \in [BatchGroups -> OverlayStates]
    /\ shared \in BOOLEAN
    /\ force_all = FALSE
    /\ gi = 0
    /\ notes = {}
    /\ skipped = 0
    /\ reported = -1
    /\ gpc = "idle"
    /\ QuietExcept("batch")

\* generate_all up to its group loop: basemap, partition and context.
GA_Start ==
    /\ gpc = "idle"
    /\ \E f \in BOOLEAN : force_all' = f
    /\ shared' = TRUE
    /\ gi' = 0
    /\ notes' = {}
    /\ skipped' = 0
    /\ reported' = -1
    /\ gpc' = "cards"
    /\ UNCHANGED <<polygons, front, back>>
    /\ UNCHANGED notBatchVars

\* One iteration of generate_all's group loop: front, then back.
GA_Group ==
    /\ gpc = "cards"
    /\ gi < MaxBatchGroups
    /\ LET g == gi + 1 IN
        /\ front' = IF force_all \/ front[g] = "none"
                    THEN [front EXCEPT ![g] = RenderOverlay(g, polygons)]
                    ELSE front
        /\ back' = IF force_all \/ back[g] = "none"
                   THEN [back EXCEPT ![g] = RenderOverlay(g, polygons)]
                   ELSE back
    /\ gi' = gi + 1
    /\ UNCHANGED <<polygons, shared, force_all, notes, skipped, reported, gpc>>
    /\ UNCHANGED notBatchVars

\* `print("[CARDS] Done. {total} images ...")`: nothing about skipped groups.
GA_Done ==
    /\ gpc = "cards"
    /\ gi = MaxBatchGroups
    /\ gpc' = "cards_done"
    /\ UNCHANGED <<polygons, front, back, shared, force_all, gi, notes,
                   skipped, reported>>
    /\ UNCHANGED notBatchVars

\* generate_apkg up to its group loop: returns if a shared image is absent.
APKG_Start ==
    /\ gpc \in {"idle", "cards_done"}
    /\ gi' = 0
    /\ notes' = {}
    /\ skipped' = 0
    /\ reported' = -1
    /\ gpc' = IF shared THEN "apkg" ELSE "apkg_error"
    /\ UNCHANGED <<polygons, front, back, shared, force_all>>
    /\ UNCHANGED notBatchVars

\* One iteration of generate_apkg's group loop.
APKG_Group ==
    /\ gpc = "apkg"
    /\ gi < MaxBatchGroups
    /\ LET g == gi + 1 IN
        IF OverlayMissing(front[g], back[g])
        THEN /\ skipped' = skipped + 1
             /\ UNCHANGED notes
        ELSE /\ notes' = notes \cup {g}
             /\ UNCHANGED skipped
    /\ gi' = gi + 1
    /\ UNCHANGED <<polygons, front, back, shared, force_all, reported, gpc>>
    /\ UNCHANGED notBatchVars

\* `if skipped: print(... skipped ...)`, then the package is written.
APKG_Done ==
    /\ gpc = "apkg"
    /\ gi = MaxBatchGroups
    /\ reported' = IF skipped # 0 THEN skipped ELSE reported
    /\ gpc' = "apkg_done"
    /\ UNCHANGED <<polygons, front, back, shared, force_all, gi, notes,
                   skipped>>
    /\ UNCHANGED notBatchVars

\* The next command starts from what the last one left on disk.
BatchAgain ==
    /\ gpc \in {"apkg_done", "apkg_error"}
    /\ gi' = 0
    /\ notes' = {}
    /\ skipped' = 0
    /\ reported' = -1
    /\ gpc' = "idle"
    /\ UNCHANGED <<polygons, front, back, shared, force_all>>
    /\ UNCHANGED notBatchVars

BatchNext ==
    \/ GA_Start
    \/ GA_Group
    \/ GA_Done
    \/ APKG_Start
    \/ APKG_Group
    \/ APKG_Done
    \/ BatchAgain

SpecBatch == BatchInit /\ [][BatchNext]_vars

\* Groups that lack an overlay file.
LackOverlay == {g \in 1..2 : front[g] = "none" \/ back[g] = "none"}

\* Groups that lack a polygon.
LackPolygon == (1..2) \ polygons

\* Deck building: every group goes through the loop, the groups that have
\* both overlays get a note, and the number of the others is reported.
C17_DeckBuilding ==
    gpc = "apkg_done" =>
        /\ gi = 2
        /\ notes = (1..2) \ LackOverlay
        /\ LackOverlay # {} => reported = Cardinality(LackOverlay)

\* Card generation: every group goes through the loop, the groups that
\* have a polygon get their overlays, and the number of the others is
\* reported.
C17_CardGeneration ==
    gpc = "cards_done" =>
        /\ gi = 2
        /\ \A g \in polygons : front[g] # "none" /\ back[g] # "none"
        /\ LackPolygon # {} => reported = Cardinality(LackPolygon)

\* C17: neither batch run halts because a group lacks data: the groups
\* that have their data are processed (deck building adds a note for each)
\* and the number of groups skipped is reported at the end of the run.
C17_Original == C17_DeckBuilding /\ C17_CardGeneration

(***************************************************************************)
(* PART IX -- DECIMATION OF load_dem                                       *)
(***************************************************************************)

DEM_DOWNSAMPLE_THRESHOLD == 7000

\* Bound: the largest multiple of the threshold among the sizes tried.
MaxMultiple == 3

\* DEM sizes around each multiple of the threshold, and a tiny one.
DemSizes ==
    {1} \cup { k * DEM_DOWNSAMPLE_THRESHOLD + e :
                 k \in 1..MaxMultiple, e \in {-1, 0, 1} }

\* max(1, a, b)
Max3(a, b, c) ==
    IF a >= b /\ a >= c THEN a ELSE IF b >= c THEN b ELSE c

\* Mutant of DecimationFactor: the DEM is never decimated.
DecimationFactor_mutNone(w, h) == 1

\* factor = max(1, src.width // THRESHOLD, src.height // THRESHOLD)
DecimationFactor(w, h) ==
    Max3(1, w \div DEM_DOWNSAMPLE_THRESHOLD, h \div DEM_DOWNSAMPLE_THRESHOLD)

DemInit ==
    /\ src_size \in DemSizes \X DemSizes
    /\ factor = 0
    /\ dem_shape = <<>>
    /\ mpc = "open"
    /\ QuietExcept("dem")

\* load_dem for a file that exists and is not cached: the decimated read.
DemRead ==
    /\ mpc = "open"
    /\ LET w == src_size[1]
           h == src_size[2]
           f == DecimationFactor(w, h)
       IN  /\ factor' = f
           /\ dem_shape' = << h \div f, w \div f >>
    /\ mpc' = "done"
    /\ UNCHANGED src_size
    /\ UNCHANGED notDemVars

DemNext == DemRead

SpecDem == DemInit /\ [][DemNext]_vars

\* C19 (as stated): whenever the width or the height of the source DEM
\* exceeds the threshold of 7000, load_dem reads it with a decimation
\* factor greater than 1.
C19_Original ==
    (mpc = "done" /\ (src_size[1] > 7000 \/ src_size[2] > 7000)) =>
        factor > 1

MaxRefs == 2

\* d.valid_osm_refs
ValidRefs == 1..MaxRefs

ForeignRef == MaxRefs + 7

Relation(id, tag, ok) == [id |-> id, tag |-> tag, rings |-> ok]

\* The relations that may exist for group g.
RelationsOf(g) ==
    { Relation(g, tag, ok) : tag \in {0, g}, ok \in BOOLEAN }

\* `if not outer_rings: continue`, else one feature with the relation's id.
Feature(rel, ref) ==
    IF rel.rings THEN { [ref |-> ref, id |-> rel.id] } ELSE {}

\* _osm_json_to_geojson: relations without the tag are passed over.
_osm_json_to_geojson(rels) ==
    UNION { Feature(rel, rel.tag) : rel \in { x \in rels : x.tag # 0 } }

\* _osm_json_to_geojson_by_id: the ref comes from relid_to_ref (here the
\* id itself); relations it does not know are passed over.
_osm_json_to_geojson_by_id(rels, fetchable) ==
    UNION { Feature(rel, rel.id) : rel \in { x \in rels : x.id \in fetchable } }

\* Mutant of KeepFeature: every feature is kept.
KeepFeature_mutAll(ref, valid) == TRUE

\* `if ref in valid`
KeepFeature(ref, valid) == ref \in valid

RefsOf(fs) == { f.ref : f \in fs }

PolyInit ==
    /\ \E present \in SUBSET ValidRefs, foreign \in BOOLEAN :
        \E pick \in [present -> UNION { RelationsOf(g) : g \in ValidRefs }] :
            /\ \A g \in present : pick[g] \in RelationsOf(g)
            /\ relations = { pick[g] : g \in present } \cup
                   (IF foreign
                    THEN { Relation(ForeignRef, ForeignRef, TRUE) } ELSE {})
    /\ fallback \in SUBSET ValidRefs
    /\ features = {}
    /\ kept = {}
    /\ found_refs = {}
    /\ still_missing = {}
    /\ saved = {}
    /\ xpc = "query"
    /\ QuietExcept("poly")

\* Step 1: the tagged relations are queried and converted.
DP_Query ==
    /\ xpc = "query"
    /\ features' = _osm_json_to_geojson(relations)
    /\ xpc' = "filter"
    /\ UNCHANGED <<relations, fallback, kept, found_refs, still_missing, saved>>
    /\ UNCHANGED notPolyVars

\* Only the groups defined in the deck are kept.
DP_Filter ==
    /\ xpc = "filter"
    /\ kept' = { f \in features : KeepFeature(f.ref, ValidRefs) }
    /\ found_refs' = RefsOf(kept')
    /\ xpc' = "fallback"
    /\ UNCHANGED <<relations, fallback, features, still_missing, saved>>
    /\ UNCHANGED notPolyVars

\* Step 2: missing groups that have a fallback id are fetched by id.
DP_Fallback ==
    /\ xpc = "fallback"
    /\ LET missing_refs == ValidRefs \ found_refs
           fetchable    == missing_refs \cap fallback
           fb_geojson   == _osm_json_to_geojson_by_id(relations, fetchable)
       IN  /\ kept' = kept \cup fb_geojson
           /\ found_refs' = found_refs \cup RefsOf(fb_geojson)
    /\ xpc' = "save"
    /\ UNCHANGED <<relations, fallback, features, still_missing, saved>>
    /\ UNCHANGED notPolyVars

\* The report of the groups still missing, and the file.
DP_Save ==
    /\ xpc = "save"
    /\ still_missing' = ValidRefs \ found_refs
    /\ saved' = kept
    /\ xpc' = "saved"
    /\ UNCHANGED <<relations, fallback, features, kept, found_refs>>
    /\ UNCHANGED notPolyVars

PolyNext == DP_Query \/ DP_Filter \/ DP_Fallback \/ DP_Save

SpecPoly == PolyInit /\ [][PolyNext]_vars

\* C26: a relation whose outer ways give no ring has no feature in the
\* file, while the relations that do give a ring and carry a ref of the
\* deck have theirs; every saved feature's ref is a ref of the deck, and
\* the saved refs together with the refs reported missing are exactly the
\* deck's refs.
C26_MissingReported ==
    xpc = "saved" =>
        /\ \A rel \in relations :
               ~rel.rings => \A f \in saved : f.id # rel.id
        /\ \A rel \in relations :
               (rel.rings /\ rel.tag \in ValidRefs) =>
                   \E f \in saved : f.id = rel.id /\ f.ref = rel.tag
        /\ \A f \in saved : f.ref \in ValidRefs
        /\ { f.ref : f \in saved } \cup still_missing = ValidRefs
        /\ { f.ref : f \in saved } \cap still_missing = {}

\* Witness of C26: the relation of group 1 gave no ring, also when fetched
\* again by its id; group 2 was saved, group 1 reported missing, and the
\* relation of another deck was left out.
C26_Witness ==
    /\ xpc = "saved"
    /\ relations = { [id |-> 1, tag |-> 1, rings |-> FALSE],
                     [id |-> 2, tag |-> 2, rings |-> TRUE],
                     [id |-> 9, tag |-> 9, rings |-> TRUE] }
    /\ 1 \in fallback
    /\ saved = { [ref |-> 2, id |-> 2] }
    /\ still_missing = {1}

(***************************************************************************)
(* PART XI -- force IN THE TWO generate_all DRIVERS                        *)
(*                                                                         *)
(* generate_all of 03_generate_cards.py (group decks) and of               *)
(* 03b_generate_poi_cards.py (POI decks): the shared basemap first, then   *)
(* two shared overlays and two overlays per group or POI.  The layers of   *)
(* the basemap can be rendered (the DEM is there).                         *)
(***************************************************************************)

Scripts == {"03_generate_cards", "03b_generate_poi_cards"}

\* Bound: groups or POIs of the deck.
MaxItems == 1

\* The images of a deck, in the order generate_all goes through them: the
\* basemap, two shared overlays, two overlays per item.
ImageList == 1..(3 + 2 * MaxItems)

\* The force _generate_basemap is called with: `_generate_basemap(d,
\* force=force)` in 03_generate_cards, `_generate_basemap(d, force=False)`
\* in 03b_generate_poi_cards.
BasemapForce(sc, force) ==
    IF sc = "03_generate_cards" THEN force ELSE FALSE

ForceInit ==
    /\ script \in Scripts
    /\ gforce \in BOOLEAN
    /\ images \in [ImageList -> BOOLEAN]
    /\ images_pre = images
    /\ images_written = {}
    /\ img_i = 1
    /\ fpc = "run"
    /\ QuietExcept("force")

WriteImage ==
    /\ images' = [images EXCEPT ![img_i] = TRUE]
    /\ images_written' = images_written \cup {img_i}

\* _generate_basemap -> generate_raster_basemap: returns at once if no
\* force flag is set and the basemap exists, else composites and saves it.
GEN_Basemap ==
    /\ fpc = "run"
    /\ img_i = 1
    /\ IF ~BasemapForce(script, gforce) /\ images[1]
       THEN UNCHANGED <<images, images_written>>
       ELSE WriteImage
    /\ img_i' = 2
    /\ UNCHANGED <<script, gforce, images_pre, fpc>>
    /\ UNCHANGED notForceVars

\* `if force or not path.exists(): generate_...(d, ..., path)`
GEN_Overlay ==
    /\ fpc = "run"
    /\ img_i > 1
    /\ img_i <= 3 + 2 * MaxItems
    /\ IF gforce \/ ~images[img_i]
       THEN WriteImage
       ELSE UNCHANGED <<images, images_written>>
    /\ img_i' = img_i + 1
    /\ UNCHANGED <<script, gforce, images_pre, fpc>>
    /\ UNCHANGED notForceVars

\* `print("... Done. ...")`
GEN_Done ==
    /\ fpc = "run"
    /\ img_i > 3 + 2 * MaxItems
    /\ fpc' = "done"
    /\ UNCHANGED <<script, gforce, images, images_pre, images_written, img_i>>
    /\ UNCHANGED notForceVars

ForceNext == GEN_Basemap \/ GEN_Overlay \/ GEN_Done

SpecForce == ForceInit /\ [][ForceNext]_vars

\* C27 (as stated): with force=True generate_all writes every image of
\* the deck, the basemap included, for group decks and POI decks alike;
\* with force=False it writes exactly the images that did not exist.
C27_Original ==
    fpc = "done" =>
        images_written =
            IF gforce THEN DOMAIN images
            ELSE { i \in DOMAIN images : ~images_pre[i] }

(***************************************************************************)
(* PART XII -- the Overpass downloads of 01_download_data.py               *)
(*                                                                         *)
(* _overpass_query and the retry loops of download_osm_borders,            *)
(* download_osm_rivers and download_osm_lakes.  Each HTTP request is one   *)
(* step whose outcome is chosen by the environment; a call is repeated to  *)
(* model a later run of the script against the same output directory.      *)
(***************************************************************************)

\* Number of calls of one function that are followed.
MaxRuns == 2

DlFns == {"_overpass_query", "download_osm_borders",
          "download_osm_rivers", "download_osm_lakes"}

\* What one requests.post + raise_for_status + resp.json() can do: succeed,
\* raise Timeout, raise HTTPError, or raise something else (ConnectionError
\* stands for every other exception).
Outcomes == {"ok", "Timeout", "HTTPError", "ConnectionError"}

\* for attempt in range(3)
AttemptRange == 0..2

\* The except clause: _overpass_query catches Timeout and HTTPError only,
\* the download functions catch Exception.
Caught(f, e) ==
    IF f = "_overpass_query" THEN e \in {"Timeout", "HTTPError"}
    ELSE e # "ok"

\* Mutant of LastAttempt: no attempt is the last one.
LastAttempt_mutNever(a) == FALSE

\* `if attempt < 2: ... else: raise` and `if attempt == 2: ... return`
LastAttempt(a) == a = 2

RetryInit ==
    /\ dl_fn \in DlFns
    /\ out_exists \in (IF dl_fn = "_overpass_query" THEN {FALSE} ELSE BOOLEAN)
    /\ attempt = 0
    /\ posts = 0
    /\ outcomes = <<>>
    /\ dl_result = "none"
    /\ prev_result = "none"
    /\ dl_run = 1
    /\ opc = "start"
    /\ QuietExcept("retry")

\* Entry of the function: the download functions return at once when their
\* output file exists; _overpass_query has no such test.
DL_Start ==
    /\ opc = "start"
    /\ IF dl_fn # "_overpass_query" /\ out_exists
       THEN /\ opc' = "end"
            /\ dl_result' = "skipped"
       ELSE /\ opc' = "try"
            /\ dl_result' = dl_result
    /\ UNCHANGED <<dl_fn, attempt, posts, outcomes, out_exists, prev_result,
                   dl_run>>
    /\ UNCHANGED notRetryVars

\* One pass of the loop body: the request is posted and either succeeds
\* (return / break), fails with a caught exception (sleep and go on, or end
\* on the last attempt), or fails with an exception that is not caught.
DL_Attempt ==
    /\ opc = "try"
    /\ attempt \in AttemptRange
    /\ \E e \in Outcomes :
          /\ posts' = posts + 1
          /\ outcomes' = Append(outcomes, e)
          /\ IF e = "ok"
             THEN /\ attempt' = attempt
                  /\ IF dl_fn = "_overpass_query"
                     THEN opc' = "end" /\ dl_result' = "data"
                     ELSE opc' = "write" /\ dl_result' = dl_result
             ELSE IF ~Caught(dl_fn, e)
             THEN /\ attempt' = attempt
                  /\ opc' = "end"
                  /\ dl_result' = "raised"
             ELSE IF LastAttempt(attempt)
             THEN /\ attempt' = attempt
                  /\ opc' = "end"
                  /\ dl_result' = IF dl_fn = "_overpass_query" THEN "raised"
                                  ELSE "gave_up"
             ELSE /\ attempt' = attempt + 1
                  /\ opc' = "try"
                  /\ dl_result' = dl_result
    /\ UNCHANGED <<dl_fn, out_exists, prev_result, dl_run>>
    /\ UNCHANGED notRetryVars

\* After the loop of a download function: the features are built from the
\* answer and the file is written when there is at least one feature.
DL_Write ==
    /\ opc = "write"
    /\ \E has_features \in BOOLEAN :
          /\ out_exists' = (out_exists \/ has_features)
          /\ dl_result' = IF has_features THEN "saved" ELSE "empty"
    /\ opc' = "end"
    /\ UNCHANGED <<dl_fn, attempt, posts, outcomes, prev_result, dl_run>>
    /\ UNCHANGED notRetryVars

\* The function is called again (a later run of the script).
DL_Again ==
    /\ opc = "end"
    /\ dl_run < MaxRuns
    /\ dl_run' = dl_run + 1
    /\ prev_result' = dl_result
    /\ dl_result' = "none"
    /\ attempt' = 0
    /\ posts' = 0
    /\ outcomes' = <<>>
    /\ opc' = "start"
    /\ UNCHANGED <<dl_fn, out_exists>>
    /\ UNCHANGED notRetryVars

RetryNext == DL_Start \/ DL_Attempt \/ DL_Write \/ DL_Again

SpecRetry == RetryInit /\ [][RetryNext]_vars

\* C30: a call posts at most 3 requests and none after a success; after 3
\* failed requests the call is over, _overpass_query having raised and a
\* download function having returned with its output file absent; and the
\* call that follows a given-up download posts a request again.
C30_RetryPolicy ==
    /\ posts = Len(outcomes)
    /\ posts <= 3
    /\ \A i \in 1..Len(outcomes) : outcomes[i] = "ok" => i = Len(outcomes)
    /\ (Len(outcomes) = 3 /\ outcomes[3] # "ok") =>
          /\ opc = "end"
          /\ IF dl_fn = "_overpass_query" THEN dl_result = "raised"
             ELSE dl_result = "gave_up"
    /\ dl_result = "gave_up" => ~out_exists
    /\ prev_result = "gave_up" =>
          /\ dl_result # "skipped"
          /\ opc = "end" => posts >= 1

\* Witness of C30: download_osm_rivers gave up in one run, and in the next
\* run, finding no file, it failed once, succeeded and saved its file.
C30_Witness ==
    /\ dl_fn = "download_osm_rivers"
    /\ dl_run = 2
    /\ prev_result = "gave_up"
    /\ opc = "end"
    /\ outcomes = <<"Timeout", "ok">>
    /\ dl_result = "saved"
    /\ out_exists

=============================================================================
